---------------------------- MODULE Spec2Model ----------------------------
(***************************************************************************)
(* A model of the jc2mouse driver (src/src/jc2mouse/driver.py): the frame  *)
(* handler, the mode controller, the button dispatcher, the optical motion *)
(* backlog with its drain pump, the stick/scroll path and the supervisor   *)
(* loop of run().                                                          *)
(*                                                                         *)
(* Time.  time.time() is modelled by the integer clock `now`, counted in   *)
(* units of 1/3600 s, so that every period and threshold of the code is a  *)
(* whole number: 1/120 s = 30, 60 ms = 216, 0.2 s = 720, 1.2 s = 4320.     *)
(*                                                                         *)
(* Reals.  The Python floats of the motion backlog are modelled by exact   *)
(* rationals n / 20^e (record [n, e]); the idle brake 0.35 = 7/20 is then  *)
(* exact.  The scroll accumulator is counted in units of 1/5760 line.      *)
(*                                                                         *)
(* Frames.  A notification frame is a sequence of bytes; Python's data[i]  *)
(* is data[i + 1] here.                                                    *)
(***************************************************************************)
EXTENDS Integers, Sequences, FiniteSets, TLC

(***************************************************************************)
(* Program constants                                                       *)
(***************************************************************************)
RIGHT_BTN_FACE_IDX == 4
RIGHT_BTN_MISC_IDX == 5
LEFT_BTN_MISC_IDX == 5
LEFT_BTN_FACE_IDX == 6

OPT_OFFSET == 15
OPT_LEN == 5
X_LO_IDX == 1
X_HI_IDX == 2
Y_LO_IDX == 3
Y_HI_IDX == 4

DEADZONE == 2
MAX_STEP == 200

\* 1 / MOTION_HZ, MOTION_HZ = 120.0
PumpPeriod == 30
MOTION_MAX_PER_TICK == 60
\* 0.060 s
MOTION_IDLE_CUTOFF_S == 216
\* MOTION_IDLE_BRAKE = 0.35 = BrakeNum / 20
BrakeNum == 7
\* MOTION_IDLE_ZERO = 1.0
MOTION_IDLE_ZERO == 1

STICK_BASE_RIGHT == 13
STICK_BASE_LEFT == 10
STICK_CAL_SAMPLES == 25
\* the gamepad-mode calibration threshold
STICK_CAL_SAMPLES_PAD == 5
STICK_DEADZONE_12 == 70
STICK_RECENTER_RADIUS == 25
\* STICK_RECENTER_ALPHA = 0.02 = 1 / RecenterDen
RecenterDen == 50

\* lines per second
SCROLL_MAX_LINES_PER_SEC == 20
SCROLL_MAX_STEP == 3

BTN4 == 4
BTN5 == 5
BTN_Y == 1
BTN_X == 2
BTN_B == 4
BTN_A == 8
BTN_SR == 16
BTN_SL == 32
BTN_L == 64
BTN_ZL == 128
BTN_PLUS == 2
BTN_R3 == 4
BTN_HOME == 16
BTN_C == 64

LBTN_MINUS == 1
LBTN_L3 == 8
LBTN_CAPTURE == 32
LBTN_DDOWN == 1
LBTN_DUP == 2
LBTN_DRIGHT == 4
LBTN_DLEFT == 8
LBTN_SR == 16
LBTN_SL == 32
LBTN_L == 64
LBTN_ZL == 128

\* 1.2 s
LEFT_MODE_TOGGLE_HOLD_S == 4320

\* the supervisor loop of run(): sleep 0.2 s; 0.5 s, 2.0 s, 5.0 s, 3.0 s
SupPeriod == 720
SupNotifAge == 1800
SupOptIdle == 7200
SupWarnEvery == 18000
SupRestartEvery == 10800

\* the last inter-notification dt: initial 1/40 s, clamped to [1/240, 1/10] s
NotifDtInit == 90
NotifDtMin == 15
NotifDtMax == 360

MouseKeys == {"LEFT", "RIGHT", "MIDDLE"}
PadKeys ==
  {"south", "east", "north", "west", "tl", "tr", "select", "start", "mode",
   "thumb", "dup", "ddown", "dleft", "dright"}

(***************************************************************************)
(* Pure helpers                                                            *)
(***************************************************************************)
Abs(v) == IF v < 0 THEN -v ELSE v

Sign(v) == IF v < 0 THEN -1 ELSE IF v > 0 THEN 1 ELSE 0

Min(a, b) == IF a < b THEN a ELSE b

Max(a, b) == IF a > b THEN a ELSE b

RECURSIVE BitAnd(_, _)
BitAnd(a, b) ==
  IF a = 0 \/ b = 0 THEN 0
  ELSE (a % 2) * (b % 2) + 2 * BitAnd(a \div 2, b \div 2)

\* int(q) of Python for the rational n / d, d > 0: truncation toward zero
Trunc(n, d) == IF n >= 0 THEN n \div d ELSE -((-n) \div d)

\* round(q) of Python 3 for the rational n / d, d > 0: to nearest, ties to even
RoundHalfEven(n, d) ==
  LET a == Abs(n)
      q == a \div d
      r == a % d
      m == IF 2 * r > d THEN q + 1
           ELSE IF 2 * r < d THEN q
           ELSE IF q % 2 = 0 THEN q ELSE q + 1
  IN  Sign(n) * m

btn_pressed(data, byte_idx, mask) ==
  Len(data) > byte_idx /\ BitAnd(data[byte_idx + 1], mask) # 0

clamp(v, lo, hi) == IF v < lo THEN lo ELSE IF v > hi THEN hi ELSE v

u16_from_opt(opt, lo_idx, hi_idx) == opt[lo_idx + 1] + 256 * opt[hi_idx + 1]

\* a delta that keeps the 16-bit difference unsigned
delta_u16_unsigned(curr, prev) == (curr - prev) % 65536

delta_u16(curr, prev) ==
  LET d == (curr - prev) % 65536
  IN  IF d > 32767 THEN d - 65536 ELSE d

\* a decode that takes the whole of b1 into x
decode_stick_12_nomask(b0, b1, b2) ==
  << b0 + 256 * b1, (b1 \div 16) + 16 * b2 >>

decode_stick_12(b0, b1, b2) ==
  << b0 + 256 * BitAnd(b1, 15), (b1 \div 16) + 16 * b2 >>

\* JC2OpticalMouse._optical_active: any of bytes 1..4 of the slice non-zero
optical_active(opt) ==
  opt # << >> /\ \E i \in 2..Len(opt) : opt[i] # 0

(***************************************************************************)
(* Exact rationals n / 20^e for the motion backlog                         *)
(***************************************************************************)
RECURSIVE Pow20(_)
Pow20(e) == IF e = 0 THEN 1 ELSE 20 * Pow20(e - 1)

RECURSIVE RNorm(_)
RNorm(q) ==
  IF q.n = 0 THEN [n |-> 0, e |-> 0]
  ELSE IF q.e > 0 /\ q.n % 20 = 0 THEN RNorm([n |-> q.n \div 20, e |-> q.e - 1])
  ELSE q

RZero == [n |-> 0, e |-> 0]

RInt(k) == [n |-> k, e |-> 0]

\* q + k and q - k for an integer k
RAddInt(q, k) == RNorm([n |-> q.n + k * Pow20(q.e), e |-> q.e])

\* q * 0.35
RBrake(q) == RNorm([n |-> q.n * BrakeNum, e |-> q.e + 1])

\* abs(q) < a / b for integers a >= 0, b > 0
RAbsLt(q, a, b) == Abs(q.n) * b < a * Pow20(q.e)

\* the numerator of q over the denominator 20^e, e >= q.e
RScale(q, e) == q.n * Pow20(e - q.e)

(***************************************************************************)
(* Frames                                                                  *)
(***************************************************************************)
\* a frame of n bytes, zero but for the bytes b[i] at the offsets i of b
Frame(n, b) == [i \in 1..n |-> IF (i - 1) \in DOMAIN b THEN b[i - 1] ELSE 0]

\* the slice data[lo : hi] of Python
Slice(data, lo, hi) == [i \in 1..(hi - lo) |-> data[lo + i]]

(***************************************************************************)
(* State                                                                   *)
(***************************************************************************)
VARIABLES
  now,       \* time.time()
  drv,       \* the fields of the JC2OpticalMouse instance
  ui_mouse,  \* the mouse sink: key states, events written, pending syn
  ui_pad,    \* the gamepad sink
  pump,      \* the task of start_motion_pump: started, wake-up time
  sup,       \* the supervisor loop of run(): position, wake-up, last_restart
  hist       \* observations of the run (what the last step did, totals)

vars == << now, drv, ui_mouse, ui_pad, pump, sup, hist >>

\* None of Python for an integer field
None == -1

\* the clock at construction: the epoch time is far above every threshold
T0 == 36000

\* hires: whether this evdev build defines REL_WHEEL_HI_RES
InitDrv(side, hires) ==
  [ side |-> side,
    hires |-> hires,
    btn_face_idx |-> IF side = "left" THEN LEFT_BTN_FACE_IDX ELSE RIGHT_BTN_FACE_IDX,
    btn_misc_idx |-> IF side = "left" THEN LEFT_BTN_MISC_IDX ELSE RIGHT_BTN_MISC_IDX,
    stick_base_idx |-> IF side = "left" THEN STICK_BASE_LEFT ELSE STICK_BASE_RIGHT,
    left_hold_start |-> 0,
    left_hold_latched |-> FALSE,
    left_toggle_hold_active |-> FALSE,
    mode |-> "mouse",
    prev_mode_btn |-> FALSE,
    last_opt_warn_ts |-> 0,
    notif_count |-> 0,
    last_notif_ts |-> 0,
    last_opt_ts |-> 0,
    last_opt |-> << >>,
    last_opt_active_ts |-> 0,
    stick_center_x12 |-> None,
    stick_center_y12 |-> None,
    stick_cal_x |-> << >>,
    stick_cal_y |-> << >>,
    wheel_accum |-> 0,
    prev_notif_ts |-> None,
    last_notif_dt |-> NotifDtInit,
    prev_x16 |-> None,
    prev_y16 |-> None,
    last_motion_ts |-> 0,
    dx_accum |-> RZero,
    dy_accum |-> RZero,
    prev_left |-> FALSE,
    prev_right |-> FALSE,
    prev_middle |-> FALSE,
    gp_prev |-> [k \in PadKeys |-> FALSE] ]

\* a sink as its consumer sees it: the state of each key (the last value
\* written) and of the absolute axes, whether events were written that no
\* syn() has followed yet, and the events of the last step that wrote to a
\* sink: press and release events per key, the relative values summed
InitMouse ==
  [ key |-> [k \in MouseKeys |-> FALSE],
    press |-> [k \in MouseKeys |-> 0],
    release |-> [k \in MouseKeys |-> 0],
    rel_x |-> 0, rel_y |-> 0, n_rel |-> 0,
    wheel |-> 0, wheel_hi |-> 0,
    pending |-> FALSE ]

InitPad ==
  [ key |-> [k \in PadKeys |-> FALSE],
    press |-> [k \in PadKeys |-> 0],
    release |-> [k \in PadKeys |-> 0],
    abs_x |-> 32768, abs_y |-> 32768,
    pending |-> FALSE ]

\* A sink that is given an order field keeps in it the order of the kinds of
\* what a handler does to it ("key", "wheel", "abs", "opt", "syn"), a run of
\* one kind written once.
Logged(ui, kind) ==
  IF "order" \in DOMAIN ui
  THEN IF ui.order # << >> /\ ui.order[Len(ui.order)] = kind THEN ui
       ELSE [ui EXCEPT !.order = Append(@, kind)]
  ELSE ui

Unlogged(ui) ==
  IF "order" \in DOMAIN ui THEN [ui EXCEPT !.order = << >>] ELSE ui

\* the sinks at the start of a step: the events of the step before forgotten
FreshMouse(ui) ==
  [Unlogged(ui) EXCEPT !.press = [k \in MouseKeys |-> 0],
             !.release = [k \in MouseKeys |-> 0],
             !.rel_x = 0, !.rel_y = 0, !.n_rel = 0,
             !.wheel = 0, !.wheel_hi = 0]

FreshPad(ui) ==
  [Unlogged(ui) EXCEPT !.press = [k \in PadKeys |-> 0],
             !.release = [k \in PadKeys |-> 0]]

(***************************************************************************)
(* Sink writes.  A world w = [drv, m, p] is the driver with its two sinks  *)
(* in the middle of a handler.                                             *)
(***************************************************************************)
\* ui.write(EV_KEY, code, value) on a sink record
KeyWrite(ui, k, v) ==
  [Logged(ui, "key") EXCEPT !.key[k] = v,
             !.press[k] = IF v THEN @ + 1 ELSE @,
             !.release[k] = IF v THEN @ ELSE @ + 1,
             !.pending = TRUE]

MouseKey(w, k, v) == [w EXCEPT !.m = KeyWrite(w.m, k, v)]

PadKey(w, k, v) == [w EXCEPT !.p = KeyWrite(w.p, k, v)]

MouseSyn(w) == [w EXCEPT !.m = [Logged(@, "syn") EXCEPT !.pending = FALSE]]

PadSyn(w) == [w EXCEPT !.p = [Logged(@, "syn") EXCEPT !.pending = FALSE]]

(***************************************************************************)
(* Mode switching helpers                                                  *)
(***************************************************************************)
\* a release routine that forgets the LEFT button
release_mouse_buttons_noleft(w) ==
  LET w2 == MouseKey(w, "RIGHT", FALSE)
      w3 == MouseKey(w2, "MIDDLE", FALSE)
      w4 == MouseSyn(w3)
  IN  [w4 EXCEPT !.drv.prev_right = FALSE,
                 !.drv.prev_middle = FALSE]

\* a release routine that writes the three releases and no syn()
release_mouse_buttons_nosyn(w) ==
  LET w1 == MouseKey(w, "LEFT", FALSE)
      w2 == MouseKey(w1, "RIGHT", FALSE)
      w3 == MouseKey(w2, "MIDDLE", FALSE)
  IN  [w3 EXCEPT !.drv.prev_left = FALSE,
                 !.drv.prev_right = FALSE,
                 !.drv.prev_middle = FALSE]

release_mouse_buttons(w) ==
  LET w1 == MouseKey(w, "LEFT", FALSE)
      w2 == MouseKey(w1, "RIGHT", FALSE)
      w3 == MouseKey(w2, "MIDDLE", FALSE)
      w4 == MouseSyn(w3)
  IN  [w4 EXCEPT !.drv.prev_left = FALSE,
                 !.drv.prev_right = FALSE,
                 !.drv.prev_middle = FALSE]

\* a release routine that clears _gp_prev but writes no key event
release_gamepad_buttons_nowrite(w) ==
  [w EXCEPT !.p = [@ EXCEPT !.abs_x = 32768,
                            !.abs_y = 32768,
                            !.pending = FALSE],
            !.drv.gp_prev = [k \in PadKeys |-> FALSE]]

\* one write of 0 per gamepad key, the stick centred, syn(), _gp_prev cleared
release_gamepad_buttons(w) ==
  [w EXCEPT !.p = [Logged(Logged(Logged(@, "key"), "abs"), "syn")
                     EXCEPT !.key = [k \in PadKeys |-> FALSE],
                            !.release = [k \in PadKeys |-> @[k] + 1],
                            !.abs_x = 32768,
                            !.abs_y = 32768,
                            !.pending = FALSE],
            !.drv.gp_prev = [k \in PadKeys |-> FALSE]]

\* a mode change that keeps the motion backlog and the scroll accumulator
set_mode_keep_backlog(w, new_mode) ==
  IF new_mode = w.drv.mode THEN w
  ELSE LET w1 == release_mouse_buttons(w)
           w2 == release_gamepad_buttons(w1)
       IN  [w2 EXCEPT !.drv.mode = new_mode]

set_mode(w, new_mode) ==
  IF new_mode = w.drv.mode THEN w
  ELSE LET w1 == release_mouse_buttons(w)
           w2 == release_gamepad_buttons(w1)
       IN  [w2 EXCEPT !.drv.dx_accum = RZero,
                      !.drv.dy_accum = RZero,
                      !.drv.wheel_accum = 0,
                      !.drv.mode = new_mode]

OtherMode(m) == IF m = "mouse" THEN "gamepad" ELSE "mouse"

btn_face(w, data, mask) ==
  Len(data) > w.drv.btn_face_idx /\ BitAnd(data[w.drv.btn_face_idx + 1], mask) # 0

btn_misc(w, data, mask) ==
  Len(data) > w.drv.btn_misc_idx /\ BitAnd(data[w.drv.btn_misc_idx + 1], mask) # 0

(***************************************************************************)
(* handle_notification, section by section                                 *)
(***************************************************************************)
\* the bookkeeping at the top and the fallback side inference
\* a fallback inference that runs on every frame, whatever side is
NotifBeginAlways(data, t, w) ==
  LET w1 == [w EXCEPT !.drv.notif_count = @ + 1, !.drv.last_notif_ts = t]
  IN  IF Len(data) >= 7
      THEN LET b4 == data[5]
               b6 == data[7]
               left_hint == BitAnd(b6, 15) # 0 \/ BitAnd(b6, 192) # 0 \/ BitAnd(b6, 48) # 0
               right_hint == BitAnd(b4, 15) # 0 \/ BitAnd(b4, 240) # 0
           IN  IF left_hint /\ ~right_hint
               THEN [w1 EXCEPT !.drv.side = "left",
                               !.drv.btn_face_idx = LEFT_BTN_FACE_IDX,
                               !.drv.btn_misc_idx = LEFT_BTN_MISC_IDX,
                               !.drv.stick_base_idx = STICK_BASE_LEFT]
               ELSE IF right_hint /\ ~left_hint
               THEN [w1 EXCEPT !.drv.side = "right",
                               !.drv.btn_face_idx = RIGHT_BTN_FACE_IDX,
                               !.drv.btn_misc_idx = RIGHT_BTN_MISC_IDX,
                               !.drv.stick_base_idx = STICK_BASE_RIGHT]
               ELSE w1
      ELSE w1

NotifBegin(data, t, w) ==
  LET w1 == [w EXCEPT !.drv.notif_count = @ + 1, !.drv.last_notif_ts = t]
  IN  IF w1.drv.side = "unknown" /\ Len(data) >= 7
      THEN LET b4 == data[5]
               b6 == data[7]
               left_hint == BitAnd(b6, 15) # 0 \/ BitAnd(b6, 192) # 0 \/ BitAnd(b6, 48) # 0
               right_hint == BitAnd(b4, 15) # 0 \/ BitAnd(b4, 240) # 0
           IN  IF left_hint /\ ~right_hint
               THEN [w1 EXCEPT !.drv.side = "left",
                               !.drv.btn_face_idx = LEFT_BTN_FACE_IDX,
                               !.drv.btn_misc_idx = LEFT_BTN_MISC_IDX,
                               !.drv.stick_base_idx = STICK_BASE_LEFT]
               ELSE IF right_hint /\ ~left_hint
               THEN [w1 EXCEPT !.drv.side = "right",
                               !.drv.btn_face_idx = RIGHT_BTN_FACE_IDX,
                               !.drv.btn_misc_idx = RIGHT_BTN_MISC_IDX,
                               !.drv.stick_base_idx = STICK_BASE_RIGHT]
               ELSE w1
      ELSE w1

\* entering gamepad mode restarts the optical-activity age
StampGamepad(w, t) ==
  IF w.drv.mode = "gamepad" THEN [w EXCEPT !.drv.last_opt_active_ts = t] ELSE w

\* a C button handled by level: every frame with C set toggles
ModeToggleRightLevel(data, t, w) ==
  LET mode_btn == btn_misc(w, data, BTN_C)
      w1 == IF mode_btn
            THEN StampGamepad(set_mode(w, OtherMode(w.drv.mode)), t)
            ELSE w
  IN  [w1 EXCEPT !.drv.prev_mode_btn = mode_btn]

\* right (or unknown) side: the C button edge
ModeToggleRight(data, t, w) ==
  LET mode_btn == btn_misc(w, data, BTN_C)
      w1 == IF mode_btn /\ ~w.drv.prev_mode_btn
            THEN StampGamepad(set_mode(w, OtherMode(w.drv.mode)), t)
            ELSE w
  IN  [w1 EXCEPT !.drv.prev_mode_btn = mode_btn]

\* a chord hold that never latches
ModeToggleLeftNoLatch(data, t, w) ==
  LET hold == btn_face(w, data, LBTN_L) /\ btn_face(w, data, LBTN_ZL)
      w1 == [w EXCEPT !.drv.left_toggle_hold_active = hold]
      w2 == IF hold
            THEN IF w1.drv.left_hold_start = 0
                 THEN [w1 EXCEPT !.drv.left_hold_start = t]
                 ELSE IF t - w1.drv.left_hold_start >= LEFT_MODE_TOGGLE_HOLD_S
                 THEN StampGamepad(set_mode(w1, OtherMode(w1.drv.mode)), t)
                 ELSE w1
            ELSE w1
  IN  IF ~hold
      THEN [w2 EXCEPT !.drv.left_hold_start = 0, !.drv.left_hold_latched = FALSE]
      ELSE w2

\* left side: L + ZL held for LEFT_MODE_TOGGLE_HOLD_S
ModeToggleLeft(data, t, w) ==
  LET hold == btn_face(w, data, LBTN_L) /\ btn_face(w, data, LBTN_ZL)
      w1 == [w EXCEPT !.drv.left_toggle_hold_active = hold]
      w2 == IF hold /\ ~w1.drv.left_hold_latched
            THEN IF w1.drv.left_hold_start = 0
                 THEN [w1 EXCEPT !.drv.left_hold_start = t]
                 ELSE IF t - w1.drv.left_hold_start >= LEFT_MODE_TOGGLE_HOLD_S
                 THEN StampGamepad(
                        set_mode([w1 EXCEPT !.drv.left_hold_latched = TRUE],
                                 OtherMode(w1.drv.mode)), t)
                 ELSE w1
            ELSE w1
  IN  IF ~hold
      THEN [w2 EXCEPT !.drv.left_hold_start = 0, !.drv.left_hold_latched = FALSE]
      ELSE w2

\* the C toggle only on a device known to be the right one
ModeToggleKnownRight(data, t, w) ==
  IF w.drv.side = "right" THEN ModeToggleRight(data, t, w)
  ELSE ModeToggleLeft(data, t, w)

ModeToggle(data, t, w) ==
  IF w.drv.side # "left" THEN ModeToggleRight(data, t, w)
  ELSE ModeToggleLeft(data, t, w)

(***************************************************************************)
(* Stick handling                                                          *)
(***************************************************************************)
\* the k-th smallest element of a non-empty sequence, k in 1..Len(s)
KthSmallest(s, k) ==
  CHOOSE v \in {s[i] : i \in 1..Len(s)} :
    /\ Cardinality({i \in 1..Len(s) : s[i] < v}) < k
    /\ Cardinality({i \in 1..Len(s) : s[i] <= v}) >= k

\* a centre taken from the last sample alone
MedianLast(s) == s[Len(s)]

\* int(statistics.median(s)) for a sequence of naturals
MedianInt(s) ==
  LET n == Len(s)
  IN  IF n % 2 = 1 THEN KthSmallest(s, (n + 1) \div 2)
      ELSE (KthSmallest(s, n \div 2) + KthSmallest(s, n \div 2 + 1)) \div 2

\* the centres c in 0..4095 for which the double c * (1.0 - 0.02) + c * 0.02
\* is just below c, so that int() of it is c - 1; for every other pair of a
\* centre in 0..4095 and a sample within the recenter radius the double
\* truncates as the exact value does
RecenterFloatShort ==
  { 7, 14, 28, 29, 33, 49, 56, 58, 66, 73, 91, 98, 105, 112, 116, 123,
    132, 146, 157, 171, 182, 185, 196, 207, 210, 221, 224, 232, 235, 246,
    249, 264, 267, 289, 292, 314, 317, 339, 342, 345, 364, 367, 370, 389,
    392, 395, 414, 417, 420, 439, 442, 445, 448, 464, 467, 470, 473, 489,
    492, 495, 498, 528, 534, 553, 559, 578, 584, 603, 609, 628, 634, 653,
    659, 665, 678, 684, 690, 703, 709, 715, 728, 734, 740, 753, 759, 765,
    778, 784, 790, 803, 809, 815, 828, 834, 840, 853, 859, 865, 878, 884,
    890, 896, 903, 909, 915, 921, 928, 934, 940, 946, 953, 959, 965, 971,
    978, 984, 990, 996, 1003, 1009, 1015, 1021, 1056, 1068, 1081, 1093,
    1106, 1118, 1131, 1143, 1156, 1168, 1181, 1193, 1206, 1218, 1231,
    1243, 1256, 1268, 1281, 1293, 1305, 1306, 1318, 1330, 1331, 1343,
    1355, 1356, 1368, 1380, 1381, 1393, 1405, 1406, 1418, 1430, 1431,
    1443, 1455, 1456, 1468, 1480, 1481, 1493, 1505, 1506, 1518, 1530,
    1531, 1543, 1555, 1556, 1568, 1580, 1581, 1593, 1605, 1606, 1618,
    1630, 1631, 1643, 1655, 1656, 1668, 1680, 1681, 1693, 1705, 1706,
    1718, 1730, 1731, 1743, 1755, 1756, 1768, 1780, 1781, 1792, 1793,
    1805, 1806, 1817, 1818, 1830, 1831, 1842, 1843, 1855, 1856, 1867,
    1868, 1880, 1881, 1892, 1893, 1905, 1906, 1917, 1918, 1930, 1931,
    1942, 1943, 1955, 1956, 1967, 1968, 1980, 1981, 1992, 1993, 2005,
    2006, 2017, 2018, 2030, 2031, 2042, 2043, 2111, 2112, 2136, 2137,
    2161, 2162, 2186, 2187, 2211, 2212, 2236, 2237, 2261, 2262, 2286,
    2287, 2311, 2312, 2336, 2337, 2361, 2362, 2386, 2387, 2411, 2412,
    2436, 2437, 2461, 2462, 2486, 2487, 2511, 2512, 2536, 2537, 2561,
    2562, 2585, 2586, 2587, 2610, 2611, 2612, 2635, 2636, 2637, 2660,
    2661, 2662, 2685, 2686, 2687, 2710, 2711, 2712, 2735, 2736, 2737,
    2760, 2761, 2762, 2785, 2786, 2787, 2810, 2811, 2812, 2835, 2836,
    2837, 2860, 2861, 2862, 2885, 2886, 2887, 2910, 2911, 2912, 2935,
    2936, 2937, 2960, 2961, 2962, 2985, 2986, 2987, 3010, 3011, 3012,
    3035, 3036, 3037, 3060, 3061, 3062, 3085, 3086, 3087, 3110, 3111,
    3112, 3135, 3136, 3137, 3160, 3161, 3162, 3185, 3186, 3187, 3210,
    3211, 3212, 3235, 3236, 3237, 3260, 3261, 3262, 3285, 3286, 3287,
    3310, 3311, 3312, 3335, 3336, 3337, 3360, 3361, 3362, 3385, 3386,
    3387, 3410, 3411, 3412, 3435, 3436, 3437, 3460, 3461, 3462, 3485,
    3486, 3487, 3510, 3511, 3512, 3535, 3536, 3537, 3560, 3561, 3562,
    3584, 3585, 3586, 3587, 3609, 3610, 3611, 3612, 3634, 3635, 3636,
    3637, 3659, 3660, 3661, 3662, 3684, 3685, 3686, 3687, 3709, 3710,
    3711, 3712, 3734, 3735, 3736, 3737, 3759, 3760, 3761, 3762, 3784,
    3785, 3786, 3787, 3809, 3810, 3811, 3812, 3834, 3835, 3836, 3837,
    3859, 3860, 3861, 3862, 3884, 3885, 3886, 3887, 3909, 3910, 3911,
    3912, 3934, 3935, 3936, 3937, 3959, 3960, 3961, 3962, 3984, 3985,
    3986, 3987, 4009, 4010, 4011, 4012, 4034, 4035, 4036, 4037, 4059,
    4060, 4061, 4062, 4084, 4085, 4086, 4087 }

\* int(c * (1.0 - STICK_RECENTER_ALPHA) + v * STICK_RECENTER_ALPHA)
recenter(c, v) ==
  IF v = c /\ c \in RecenterFloatShort THEN c - 1
  ELSE Trunc(c * (RecenterDen - 1) + v, RecenterDen)

\* returns [w, stick]: stick is <<x12, y12, cx, cy>> once calibrated, else << >>
decode_stick_and_calibrate(data, t, w) ==
  LET base == w.drv.stick_base_idx
  IN
  IF Len(data) <= base + 2
  THEN [w |-> [w EXCEPT !.drv.prev_notif_ts = IF @ = None THEN t ELSE @],
        stick |-> << >>]
  ELSE
    LET xy == decode_stick_12(data[base + 1], data[base + 2], data[base + 3])
        x12 == xy[1]
        y12 == xy[2]
        dt == IF w.drv.prev_notif_ts = None THEN 0 ELSE t - w.drv.prev_notif_ts
        w1 == [w EXCEPT !.drv.prev_notif_ts = t,
                        !.drv.last_notif_dt =
                           IF dt > 0 THEN clamp(dt, NotifDtMin, NotifDtMax) ELSE @]
    IN
    IF w1.drv.stick_center_x12 = None \/ w1.drv.stick_center_y12 = None
    THEN
      LET cal_x == Append(w1.drv.stick_cal_x, x12)
          cal_y == Append(w1.drv.stick_cal_y, y12)
          need == IF w1.drv.mode = "gamepad" THEN STICK_CAL_SAMPLES_PAD
                  ELSE STICK_CAL_SAMPLES
          w2 == [w1 EXCEPT !.drv.stick_cal_x = cal_x, !.drv.stick_cal_y = cal_y]
      IN  IF Len(cal_x) >= need
          THEN [w |-> [w2 EXCEPT !.drv.stick_center_x12 = MedianInt(cal_x),
                                 !.drv.stick_center_y12 = MedianInt(cal_y)],
                stick |-> << x12, y12, MedianInt(cal_x), MedianInt(cal_y) >>]
          ELSE [w |-> w2, stick |-> << >>]
    ELSE
      LET cx0 == w1.drv.stick_center_x12
          cy0 == w1.drv.stick_center_y12
          near == /\ Abs(x12 - cx0) <= STICK_RECENTER_RADIUS
                  /\ Abs(y12 - cy0) <= STICK_RECENTER_RADIUS
          cx == IF near THEN recenter(cx0, x12) ELSE cx0
          cy == IF near THEN recenter(cy0, y12) ELSE cy0
      IN  [w |-> [w1 EXCEPT !.drv.stick_center_x12 = cx,
                            !.drv.stick_center_y12 = cy],
           stick |-> << x12, y12, cx, cy >>]

\* The scroll curve (norm ** SCROLL_CURVE_POWER), norm = a / 1978, in
\* sixteenths rounded down: CurveSteps[c] is the least a with
\* (a / 1978) ** 1.6 >= c / 16.  It is exact at norm = 0 and norm = 1.
CurveSteps ==
  << 350, 540, 695, 832, 957, 1072, 1180, 1283, 1381, 1475, 1566, 1653, 1738,
     1820, 1900, 1978 >>

\* a curve that falls as the deflection grows
Curve16Falling(a) == Cardinality({c \in 1..Len(CurveSteps) : CurveSteps[c] > a})

Curve16(a) == Cardinality({c \in 1..Len(CurveSteps) : CurveSteps[c] <= a})

\* the wheel accumulator counts 1/5760 line: one REL_WHEEL_HI_RES unit
\* (1/120 line) is HiResUnit of them, one line is LineUnit of them
HiResUnit == 48
LineUnit == 5760

\* returns [w, wrote]
emit_scroll_from_stick(w, x12, y12, cx, cy) ==
  IF w.drv.prev_notif_ts = None THEN [w |-> w, wrote |-> FALSE]
  ELSE
    LET dt == w.drv.last_notif_dt
        dy == y12 - cy
    IN
    IF Abs(dy) <= STICK_DEADZONE_12 THEN [w |-> w, wrote |-> FALSE]
    ELSE
      LET mag == Min(Abs(dy), 2048)
          \* speed * dt lines = Curve16 / 16 * 20 * dt / 3600 lines
          inc == Sign(dy) * ((Curve16(mag - STICK_DEADZONE_12)
                                * SCROLL_MAX_LINES_PER_SEC * dt) \div 10)
          acc1 == w.drv.wheel_accum + inc
          hires_units ==
            IF w.drv.hires
            THEN clamp(Trunc(acc1, HiResUnit), -SCROLL_MAX_STEP * 120, SCROLL_MAX_STEP * 120)
            ELSE 0
          acc2 == acc1 - hires_units * HiResUnit
          step == Trunc(clamp(acc2, -SCROLL_MAX_STEP * LineUnit, SCROLL_MAX_STEP * LineUnit),
                        LineUnit)
          acc3 == acc2 - step * LineUnit
          wrote == hires_units # 0 \/ step # 0
      IN  [w |-> [w EXCEPT !.drv.wheel_accum = acc3,
                           !.m = [(IF wrote THEN Logged(@, "wheel") ELSE @)
                                    EXCEPT !.wheel_hi = @ + hires_units,
                                           !.wheel = @ + step,
                                           !.pending = @ \/ wrote]],
           wrote |-> wrote]

\* the rotation of the right device on either side
emit_gamepad_stick_clockwise(w, x12, y12, cx, cy) ==
  LET dx0 == x12 - cx
      dy0 == cy - y12
      dx == IF Abs(dx0) <= STICK_DEADZONE_12 THEN 0 ELSE dx0
      dy == IF Abs(dy0) <= STICK_DEADZONE_12 THEN 0 ELSE dy0
      rx == clamp(dy, -2048, 2048)
      ry == clamp(-dx, -2048, 2048)
      ax == clamp(32768 + rx * 16, 0, 65535)
      ay == clamp(32768 - ry * 16, 0, 65535)
  IN  [w EXCEPT !.p = [Logged(Logged(@, "abs"), "syn")
                         EXCEPT !.abs_x = 65535 - ax,
                                !.abs_y = ay,
                                !.pending = FALSE]]

emit_gamepad_stick(w, x12, y12, cx, cy) ==
  LET dx0 == x12 - cx
      dy0 == cy - y12
      dx == IF Abs(dx0) <= STICK_DEADZONE_12 THEN 0 ELSE dx0
      dy == IF Abs(dy0) <= STICK_DEADZONE_12 THEN 0 ELSE dy0
      rx == clamp(IF w.drv.side = "left" THEN -dy ELSE dy, -2048, 2048)
      ry == clamp(IF w.drv.side = "left" THEN dx ELSE -dx, -2048, 2048)
      \* 32768 / 2048 = 16
      ax == clamp(32768 + rx * 16, 0, 65535)
      ay == clamp(32768 - ry * 16, 0, 65535)
  IN  [w EXCEPT !.p = [Logged(Logged(@, "abs"), "syn")
                         EXCEPT !.abs_x = 65535 - ax,
                                !.abs_y = ay,
                                !.pending = FALSE]]

\* the stick section of handle_notification
StickSection(data, t, w) ==
  LET r == decode_stick_and_calibrate(data, t, w)
  IN  IF r.stick = << >> THEN r.w
      ELSE IF r.w.drv.mode = "mouse"
      THEN LET sc == emit_scroll_from_stick(r.w, r.stick[1], r.stick[2],
                                            r.stick[3], r.stick[4])
           IN  IF sc.wrote THEN MouseSyn(sc.w) ELSE sc.w
      ELSE emit_gamepad_stick(r.w, r.stick[1], r.stick[2], r.stick[3], r.stick[4])

(***************************************************************************)
(* Optical motion and buttons                                              *)
(***************************************************************************)
INVERT_X == FALSE
INVERT_Y == FALSE

handle_optical_motion(data, t, w) ==
  IF Len(data) < OPT_OFFSET + OPT_LEN THEN w
  ELSE
    LET opt == Slice(data, OPT_OFFSET, OPT_OFFSET + OPT_LEN)
        w1 == [w EXCEPT !.m = Logged(@, "opt"),
                        !.drv.last_opt = opt,
                        !.drv.last_opt_ts = t,
                        !.drv.last_opt_active_ts = IF optical_active(opt) THEN t ELSE @]
        x16 == u16_from_opt(opt, X_LO_IDX, X_HI_IDX)
        y16 == u16_from_opt(opt, Y_LO_IDX, Y_HI_IDX)
        first == w1.drv.prev_x16 = None
        dx0 == IF first THEN 0 ELSE delta_u16(x16, w1.drv.prev_x16)
        dy0 == IF first THEN 0 ELSE delta_u16(y16, w1.drv.prev_y16)
        dx1 == IF INVERT_X THEN -dx0 ELSE dx0
        dy1 == IF INVERT_Y THEN -dy0 ELSE dy0
        dx == IF Abs(dx1) <= DEADZONE THEN 0 ELSE dx1
        dy == IF Abs(dy1) <= DEADZONE THEN 0 ELSE dy1
        w2 == [w1 EXCEPT !.drv.prev_x16 = x16, !.drv.prev_y16 = y16]
    IN  IF dx # 0 \/ dy # 0
        THEN LET mdx == clamp(dx, -MAX_STEP, MAX_STEP)
                 mdy == clamp(dy, -MAX_STEP, MAX_STEP)
             IN  [w2 EXCEPT !.drv.last_motion_ts = t,
                            !.drv.dx_accum = RAddInt(@, mdx),
                            !.drv.dy_accum = RAddInt(@, mdy)]
        ELSE w2

\* mouse writes that do not record the LEFT state they emitted
MouseEdgesForgetful(w, left, right, middle) ==
  LET w1 == IF left # w.drv.prev_left THEN MouseKey(w, "LEFT", left) ELSE w
      w2 == IF right # w1.drv.prev_right
            THEN [MouseKey(w1, "RIGHT", right) EXCEPT !.drv.prev_right = right]
            ELSE w1
  IN  IF middle # w2.drv.prev_middle
      THEN [MouseKey(w2, "MIDDLE", middle) EXCEPT !.drv.prev_middle = middle]
      ELSE w2

\* the three edge-triggered writes of the mouse branch
MouseEdges(w, left, right, middle) ==
  LET w1 == IF left # w.drv.prev_left
            THEN [MouseKey(w, "LEFT", left) EXCEPT !.drv.prev_left = left]
            ELSE w
      w2 == IF right # w1.drv.prev_right
            THEN [MouseKey(w1, "RIGHT", right) EXCEPT !.drv.prev_right = right]
            ELSE w1
  IN  IF middle # w2.drv.prev_middle
      THEN [MouseKey(w2, "MIDDLE", middle) EXCEPT !.drv.prev_middle = middle]
      ELSE w2

emit_btn(w, name, pressed) ==
  IF pressed # w.drv.gp_prev[name]
  THEN [PadKey(w, name, pressed) EXCEPT !.drv.gp_prev[name] = pressed]
  ELSE w

\* the nine emit_btn calls and syn() of a gamepad branch
PadEdges(w, south, east, west, north, tl, tr, select, start, thumb) ==
  LET w1 == emit_btn(w, "south", south)
      w2 == emit_btn(w1, "east", east)
      w3 == emit_btn(w2, "west", west)
      w4 == emit_btn(w3, "north", north)
      w5 == emit_btn(w4, "tl", tl)
      w6 == emit_btn(w5, "tr", tr)
      w7 == emit_btn(w6, "select", select)
      w8 == emit_btn(w7, "start", start)
      w9 == emit_btn(w8, "thumb", thumb)
  IN  PadSyn(w9)

COMPAT_SWAP_WEST_NORTH == TRUE
LCOMPAT_SWAP_WEST_NORTH == TRUE

\* the inputs of the mouse buttons on a right (or unknown) device
RightMouseInput(data) ==
  [ left |-> btn_pressed(data, BTN4, BTN_L),
    right |-> btn_pressed(data, BTN4, BTN_ZL),
    middle |-> btn_pressed(data, BTN5, BTN_R3) ]

\* inputs of the left device without the chord suppression
LeftMouseInputRaw(w, data) ==
  [ left |-> btn_face(w, data, LBTN_L),
    right |-> btn_face(w, data, LBTN_ZL),
    middle |-> btn_misc(w, data, LBTN_L3) ]

\* the inputs of the mouse buttons on a left device
LeftMouseInput(w, data) ==
  [ left |-> IF w.drv.left_toggle_hold_active THEN FALSE
             ELSE btn_face(w, data, LBTN_L),
    right |-> IF w.drv.left_toggle_hold_active THEN FALSE
              ELSE btn_face(w, data, LBTN_ZL),
    middle |-> btn_misc(w, data, LBTN_L3) ]

\* the inputs of the gamepad keys on a right (or unknown) device
RightPadInput(data) ==
  LET a == btn_pressed(data, BTN4, BTN_A)
      b == btn_pressed(data, BTN4, BTN_B)
      x == btn_pressed(data, BTN4, BTN_X)
      y == btn_pressed(data, BTN4, BTN_Y)
  IN  [ south |-> a,
        east |-> x,
        west |-> IF COMPAT_SWAP_WEST_NORTH THEN y ELSE b,
        north |-> IF COMPAT_SWAP_WEST_NORTH THEN b ELSE y,
        tl |-> btn_pressed(data, BTN4, BTN_SL),
        tr |-> btn_pressed(data, BTN4, BTN_SR),
        select |-> btn_pressed(data, BTN5, BTN_HOME),
        start |-> btn_pressed(data, BTN5, BTN_PLUS),
        thumb |-> btn_pressed(data, BTN5, BTN_R3) ]

\* the inputs of the gamepad keys on a left device
LeftPadInput(w, data) ==
  LET phys_up == btn_face(w, data, LBTN_DRIGHT)
      phys_right == btn_face(w, data, LBTN_DDOWN)
      phys_down == btn_face(w, data, LBTN_DLEFT)
      phys_left == btn_face(w, data, LBTN_DUP)
  IN  [ south |-> phys_down,
        east |-> phys_right,
        west |-> IF LCOMPAT_SWAP_WEST_NORTH THEN phys_up ELSE phys_left,
        north |-> IF LCOMPAT_SWAP_WEST_NORTH THEN phys_left ELSE phys_up,
        tl |-> btn_face(w, data, LBTN_SL),
        tr |-> btn_face(w, data, LBTN_SR),
        select |-> btn_misc(w, data, LBTN_MINUS),
        start |-> btn_misc(w, data, LBTN_CAPTURE),
        thumb |-> btn_misc(w, data, LBTN_L3) ]

\* the buttons section of handle_notification (with the optical extraction
\* and the syn() that close the mouse branch)
ButtonsSection(data, t, w) ==
  IF w.drv.mode = "mouse"
  THEN LET i == IF w.drv.side # "left" THEN RightMouseInput(data)
                ELSE LeftMouseInput(w, data)
           w1 == MouseEdges(w, i.left, i.right, i.middle)
       IN  MouseSyn(handle_optical_motion(data, t, w1))
  ELSE LET i == IF w.drv.side # "left" THEN RightPadInput(data)
                ELSE LeftPadInput(w, data)
       IN  PadEdges(w, i.south, i.east, i.west, i.north, i.tl, i.tr,
                    i.select, i.start, i.thumb)

\* the handler that dispatches the buttons before the stick
handle_notification_buttons_first(data, t, w) ==
  StickSection(data, t, ButtonsSection(data, t, ModeToggle(data, t, NotifBegin(data, t, w))))

\* handle_notification(data) at time t
handle_notification(data, t, w) ==
  ButtonsSection(data, t, StickSection(data, t, ModeToggle(data, t, NotifBegin(data, t, w))))

(***************************************************************************)
(* The motion pump (the body of _pump after its sleep)                     *)
(***************************************************************************)
\* round(c * |nx| / sqrt(m2)) for 0 < nx * nx <= m2: j counts when
\* c * |nx| / sqrt(m2) > j - 1/2, or = j - 1/2 with j even (ties to even)
RoundOverMag(c, nx, m2) ==
  Cardinality({j \in 1..c :
     \/ 4 * c * c * nx * nx > (2 * j - 1) * (2 * j - 1) * m2
     \/ /\ 4 * c * c * nx * nx = (2 * j - 1) * (2 * j - 1) * m2
        /\ j % 2 = 0})

\* <<ix, iy>> = the rounded (ax, ay) * (per_tick / mag), with
\* per_tick = clamp(mag * DRAIN_FRACTION, MIN_PER_TICK, MAX_PER_TICK),
\* DRAIN_FRACTION = 0.25, MIN_PER_TICK = 1.0; (ax, ay) # (0, 0)
PumpOut(ax, ay) ==
  LET e == Max(ax.e, ay.e)
      d == Pow20(e)
      nx == RScale(ax, e)
      ny == RScale(ay, e)
      one == nx = 0 \/ ny = 0
      \* with one component zero mag is the magnitude of the other
      m1 == Abs(nx) + Abs(ny)
      low == IF one THEN m1 < 4 * d ELSE nx * nx + ny * ny < 16 * d * d
      \* mag * mag > (4 * MAX_PER_TICK) ** 2, compared after the division
      \* by d * d
      high == IF one THEN m1 > 4 * MOTION_MAX_PER_TICK * d
              ELSE LET m2 == nx * nx + ny * ny
                       top == 16 * MOTION_MAX_PER_TICK * MOTION_MAX_PER_TICK
                   IN  \/ m2 \div (d * d) > top
                       \/ m2 \div (d * d) = top /\ m2 % (d * d) > 0
      Comp(n) ==
        IF n = 0 THEN 0
        ELSE IF low THEN
          IF one THEN Sign(n) ELSE Sign(n) * RoundOverMag(1, n, nx * nx + ny * ny)
        ELSE IF high THEN
          IF one THEN Sign(n) * MOTION_MAX_PER_TICK
          ELSE Sign(n) * RoundOverMag(MOTION_MAX_PER_TICK, n, nx * nx + ny * ny)
        ELSE RoundHalfEven(n, 4 * d)
  IN  << Comp(nx), Comp(ny) >>

\* an idle brake that leaves the backlog as it is
PumpBrakeNone(q) == q

\* the idle brake: both accumulators * MOTION_IDLE_BRAKE, then zeroed when
\* below MOTION_IDLE_ZERO
PumpBrake(q) ==
  LET b == RBrake(q)
  IN  IF RAbsLt(b, MOTION_IDLE_ZERO, 1) THEN RZero ELSE b

\* a subtraction that leaves the last count of every emission in the backlog
PumpSubtractShort(q, i) == RAddInt(q, -(i - Sign(i)))

\* subtract exactly what was emitted
PumpSubtract(q, i) == RAddInt(q, -i)

pump_tick(t, w) ==
  IF w.drv.mode # "mouse" THEN w
  ELSE IF RAbsLt(w.drv.dx_accum, 1, 10) /\ RAbsLt(w.drv.dy_accum, 1, 10) THEN w
  ELSE
    LET idle == (t - w.drv.last_motion_ts) > MOTION_IDLE_CUTOFF_S
        w1 == IF idle
              THEN [w EXCEPT !.drv.dx_accum = PumpBrake(@),
                             !.drv.dy_accum = PumpBrake(@)]
              ELSE w
    IN
    IF idle /\ RAbsLt(w1.drv.dx_accum, 1, 10) /\ RAbsLt(w1.drv.dy_accum, 1, 10)
    THEN w1
    ELSE
      LET out == PumpOut(w1.drv.dx_accum, w1.drv.dy_accum)
          ix == out[1]
          iy == out[2]
      IN  IF ix = 0 /\ iy = 0 THEN w1
          ELSE [w1 EXCEPT !.m.rel_x = @ + ix,
                          !.m.rel_y = @ + iy,
                          !.m.n_rel = @ + 1,
                          !.m.pending = FALSE,
                          !.drv.dx_accum = PumpSubtract(@, ix),
                          !.drv.dy_accum = PumpSubtract(@, iy)]

(***************************************************************************)
(* Bounds of the model                                                     *)
(***************************************************************************)
\* frames delivered in one run of the driver under run()
MaxFrames == 3
\* frames delivered in one run of the button scenarios
MaxBtnFrames == 4
\* frames delivered in one run of the edge-counting scenarios
MaxEdgeFrames == 5
\* frames delivered in one run of the motion scenarios, the pump periods
\* during which they arrive, and the pump periods the scenario lasts
MaxOptFrames == 3
FrameWindow == 3
MotionTicks == 15

(***************************************************************************)
(* Observations.  hist records what the last frame and the last supervisor *)
(* check did; it is written by the actions and read by no handler.         *)
(***************************************************************************)
\* the keys a sink shows as pressed
Pressed(w) ==
  {k \in MouseKeys : w.m.key[k]} \cup {k \in PadKeys : w.p.key[k]}

\* the keys the driver records as pressed in its last-emitted state
PrevPressed(d) ==
  {k \in MouseKeys : \/ k = "LEFT" /\ d.prev_left
                     \/ k = "RIGHT" /\ d.prev_right
                     \/ k = "MIDDLE" /\ d.prev_middle}
    \cup {k \in PadKeys : d.gp_prev[k]}

\* the C bit of a frame (misc byte of the right device)
CBit(data) == btn_pressed(data, RIGHT_BTN_MISC_IDX, BTN_C)

\* the mode-toggle chord of a frame (face byte of the left device)
Chord(data) ==
  /\ btn_pressed(data, LEFT_BTN_FACE_IDX, LBTN_L)
  /\ btn_pressed(data, LEFT_BTN_FACE_IDX, LBTN_ZL)

AllKeys == MouseKeys \cup PadKeys

\* the buttons whose bit is set in a frame, under the layout of the side of
\* w (L and ZL of the left device as they are, chord or not)
RawBits(w, data) ==
  LET mi == IF w.drv.side # "left" THEN RightMouseInput(data)
            ELSE [ left |-> btn_face(w, data, LBTN_L),
                   right |-> btn_face(w, data, LBTN_ZL),
                   middle |-> btn_misc(w, data, LBTN_L3) ]
      pi == IF w.drv.side # "left" THEN RightPadInput(data)
            ELSE LeftPadInput(w, data)
  IN  {k \in MouseKeys : \/ k = "LEFT" /\ mi.left
                         \/ k = "RIGHT" /\ mi.right
                         \/ k = "MIDDLE" /\ mi.middle}
        \cup {k \in DOMAIN pi : pi[k]}

\* the buttons the dispatcher reads as pressed in a frame: those of the
\* active mode, under the layout of the side of w, LEFT and RIGHT of a left
\* device masked while the chord is held
ActiveInput(w, data) ==
  IF w.drv.mode = "mouse"
  THEN LET mi == IF w.drv.side # "left" THEN RightMouseInput(data)
                 ELSE LeftMouseInput(w, data)
       IN  {k \in MouseKeys : \/ k = "LEFT" /\ mi.left
                              \/ k = "RIGHT" /\ mi.right
                              \/ k = "MIDDLE" /\ mi.middle}
  ELSE LET pi == IF w.drv.side # "left" THEN RightPadInput(data)
                 ELSE LeftPadInput(w, data)
       IN  {k \in DOMAIN pi : pi[k]}

\* the press (v = TRUE) or release events of a key in the sinks of w
Events(w, k, v) ==
  IF k \in MouseKeys
  THEN (IF v THEN w.m.press[k] ELSE w.m.release[k])
  ELSE (IF v THEN w.p.press[k] ELSE w.p.release[k])

\* event and transition counts per button: over the whole run (press,
\* release against the rises and falls of the button's bit) and since the
\* last mode change (s_press, s_release against the rises and falls of the
\* dispatcher's input, taken as clear at the mode change)
InitEdges ==
  [ press |-> [k \in AllKeys |-> 0],
    release |-> [k \in AllKeys |-> 0],
    rises |-> [k \in AllKeys |-> 0],
    falls |-> [k \in AllKeys |-> 0],
    bits |-> {},
    s_press |-> [k \in AllKeys |-> 0],
    s_release |-> [k \in AllKeys |-> 0],
    s_rises |-> [k \in AllKeys |-> 0],
    s_falls |-> [k \in AllKeys |-> 0],
    s_in |-> {} ]

\* w0: at the call, wb: after the side inference, wt: after the mode
\* section, w1: at the return
FrameEdges(ed, data, wb, wt, w1) ==
  LET toggled == wt.drv.mode # wb.drv.mode
      bits == RawBits(wb, data)
      in == ActiveInput(wt, data)
      \* events written after the mode change, if there was one
      After(k, v) == Events(w1, k, v) - (IF toggled THEN Events(wt, k, v) ELSE 0)
      in0 == IF toggled THEN {} ELSE ed.s_in
      N(b) == IF b THEN 1 ELSE 0
  IN  [ press |-> [k \in AllKeys |-> ed.press[k] + Events(w1, k, TRUE)],
        release |-> [k \in AllKeys |-> ed.release[k] + Events(w1, k, FALSE)],
        rises |-> [k \in AllKeys |-> ed.rises[k] + N(k \in bits /\ k \notin ed.bits)],
        falls |-> [k \in AllKeys |-> ed.falls[k] + N(k \notin bits /\ k \in ed.bits)],
        bits |-> bits,
        s_press |-> [k \in AllKeys |->
                       (IF toggled THEN 0 ELSE ed.s_press[k]) + After(k, TRUE)],
        s_release |-> [k \in AllKeys |->
                         (IF toggled THEN 0 ELSE ed.s_release[k]) + After(k, FALSE)],
        s_rises |-> [k \in AllKeys |->
                       (IF toggled THEN 0 ELSE ed.s_rises[k])
                         + N(k \in in /\ k \notin in0)],
        s_falls |-> [k \in AllKeys |->
                       (IF toggled THEN 0 ELSE ed.s_falls[k])
                         + N(k \notin in /\ k \in in0)],
        s_in |-> in ]

\* the motion the frames carry and the motion the pump emits
InitMotion ==
  [ x16 |-> None, y16 |-> None,        \* the optical counters last seen
    contrib_x |-> 0, contrib_y |-> 0,  \* sums of the deltas of the counters
    n_contrib |-> 0,                   \* frames with a non-zero delta
    from_x |-> None, to_x |-> None,    \* x16 before and in the last of them
    emitted_x |-> 0, emitted_y |-> 0,  \* sums of REL_X, REL_Y written
    braked |-> FALSE ]                 \* a tick has applied the idle brake

\* the signed 16-bit difference of two counters, small ones dropped, large
\* ones limited
CounterDelta(curr, prev) ==
  LET d == ((curr - prev + 32768) % 65536) - 32768
  IN  IF Abs(d) <= DEADZONE THEN 0
      ELSE IF d > MAX_STEP THEN MAX_STEP
      ELSE IF d < -MAX_STEP THEN -MAX_STEP
      ELSE d

\* a frame that carries optical counters, handled in mouse mode
FrameMotion(mo, data) ==
  IF Len(data) < OPT_OFFSET + OPT_LEN THEN mo
  ELSE
    LET x == data[OPT_OFFSET + X_LO_IDX + 1] + 256 * data[OPT_OFFSET + X_HI_IDX + 1]
        y == data[OPT_OFFSET + Y_LO_IDX + 1] + 256 * data[OPT_OFFSET + Y_HI_IDX + 1]
        dx == IF mo.x16 = None THEN 0 ELSE CounterDelta(x, mo.x16)
        dy == IF mo.y16 = None THEN 0 ELSE CounterDelta(y, mo.y16)
        m1 == [mo EXCEPT !.x16 = x, !.y16 = y]
    IN  IF dx = 0 /\ dy = 0 THEN m1
        ELSE [m1 EXCEPT !.contrib_x = @ + dx,
                        !.contrib_y = @ + dy,
                        !.n_contrib = @ + 1,
                        !.from_x = mo.x16,
                        !.to_x = x]

\* a pump tick at time t that found the driver d and wrote the events of m
PumpMotion(mo, t, d, m) ==
  [mo EXCEPT !.emitted_x = @ + m.rel_x,
             !.emitted_y = @ + m.rel_y,
             !.braked = \/ @
                        \/ /\ d.mode = "mouse"
                           /\ ~(RAbsLt(d.dx_accum, 1, 10) /\ RAbsLt(d.dy_accum, 1, 10))
                           /\ (t - d.last_motion_ts) > MOTION_IDLE_CUTOFF_S]

InitHist(device, d, track) ==
  [ device |-> device,           \* the controller that sends the frames
    track |-> track,             \* what the run counts: "edges", "motion"
    edges |-> InitEdges,
    motion |-> InitMotion,
    frames0 |-> d.notif_count,   \* the frame count at the start of the run
    data |-> << >>,              \* the last frame
    side |-> d.side,             \* the side the last frame was handled as
    mode0 |-> d.mode,            \* the mode when the last frame arrived
    toggled |-> FALSE,           \* the last frame changed the mode
    prev_c |-> FALSE,            \* the C bit of the frame before the last
    chord_since |-> None,        \* arrival of the first frame of the hold
    chord_toggles |-> 0,         \* mode changes during the hold
    pre |-> {},                  \* keys pressed when the last frame arrived
    snap |-> {},                 \* keys pressed when _set_mode returned
    acc0 |-> {},                 \* accumulators not zero when it arrived
    sup_mode |-> "none",         \* the mode at the last supervisor check
    sup_idle |-> FALSE,          \* whether its optical-idle test held
    sup_fired |-> FALSE ]        \* whether it invoked the bring-up

\* w0: at the call, wb: after the side inference, wt: after the mode section
FrameHist(data, t, w0, wb, wt, w1) ==
  LET toggled == wt.drv.mode # w0.drv.mode
      chord == Chord(data)
  IN  [hist EXCEPT
         !.data = data,
         !.edges = IF hist.track = "edges"
                   THEN FrameEdges(@, data, wb, wt, w1) ELSE @,
         !.motion = IF hist.track = "motion"
                    THEN FrameMotion(@, data) ELSE @,
         !.side = wb.drv.side,
         !.mode0 = w0.drv.mode,
         !.toggled = toggled,
         !.prev_c = CBit(hist.data),
         !.chord_since = IF ~chord THEN None ELSE IF @ = None THEN t ELSE @,
         !.chord_toggles = IF ~chord THEN 0
                           ELSE @ + (IF toggled THEN 1 ELSE 0),
         !.pre = Pressed(w0) \cup PrevPressed(w0.drv),
         !.acc0 = {a \in {"motion", "wheel"} :
                     \/ a = "motion" /\ (w0.drv.dx_accum # RZero \/ w0.drv.dy_accum # RZero)
                     \/ a = "wheel" /\ w0.drv.wheel_accum # 0},
         !.snap = IF toggled THEN Pressed(wt) \cup PrevPressed(wt.drv) ELSE {}]

(***************************************************************************)
(* Actions                                                                 *)
(***************************************************************************)
\* the driver and its sinks as a handler finds them
World == [drv |-> drv, m |-> FreshMouse(ui_mouse), p |-> FreshPad(ui_pad)]

\* the notification callback runs handle_notification(data)
Notify(data, max) ==
  /\ drv.notif_count < hist.frames0 + max
  /\ LET wb == NotifBegin(data, now, World)
         wt == ModeToggle(data, now, wb)
         w1 == handle_notification(data, now, World)
     IN  /\ drv' = w1.drv
         /\ ui_mouse' = w1.m
         /\ ui_pad' = w1.p
         /\ hist' = FrameHist(data, now, World, wb, wt, w1)
  /\ UNCHANGED << now, pump, sup >>

\* run(): start_motion_pump() creates the pump task, the supervisor loop is
\* entered; both begin with a sleep
StartTasks ==
  /\ sup.pc = "starting"
  /\ pump' = [started |-> TRUE, wake |-> now + PumpPeriod]
  /\ sup' = [sup EXCEPT !.pc = "sleep", !.wake = now + SupPeriod]
  /\ UNCHANGED << now, drv, ui_mouse, ui_pad, hist >>

\* one iteration of _pump() after its sleep
PumpTick ==
  /\ pump.started
  /\ now >= pump.wake
  /\ LET w1 == pump_tick(now, World)
     IN  /\ drv' = w1.drv
         /\ ui_mouse' = w1.m
         /\ ui_pad' = w1.p
         /\ hist' = IF hist.track = "motion"
                    THEN [hist EXCEPT !.motion = PumpMotion(@, now, drv, w1.m)]
                    ELSE hist
  /\ pump' = [pump EXCEPT !.wake = now + PumpPeriod]
  /\ UNCHANGED << now, sup >>

\* 999.0 s, the age of the notifications when none arrived yet
NoNotifAge == 3596400

\* the optical-idle test of the supervisor at time t
OpticalIdle(d, t) ==
  LET age == IF d.last_notif_ts # 0 THEN t - d.last_notif_ts ELSE NoNotifAge
  IN  age < SupNotifAge /\ (t - d.last_opt_active_ts) > SupOptIdle

\* a watchdog that does not look at the mode
SupervisorFiresAnyMode(d, last_restart, t) ==
  /\ OpticalIdle(d, t)
  /\ (t - last_restart) > SupRestartEvery

\* whether the supervisor invokes ensure_notify_and_init at time t
SupervisorFires(d, last_restart, t) ==
  /\ d.mode = "mouse"
  /\ OpticalIdle(d, t)
  /\ (t - last_restart) > SupRestartEvery

\* one iteration of the supervisor loop of run() after its sleep, up to the
\* await of the bring-up or the next sleep
SupervisorTick ==
  /\ sup.pc = "sleep"
  /\ now >= sup.wake
  /\ LET fires == SupervisorFires(drv, sup.last_restart, now)
         warns == /\ drv.mode = "mouse"
                  /\ OpticalIdle(drv, now)
                  /\ (now - drv.last_opt_warn_ts) > SupWarnEvery
     IN  /\ drv' = IF warns THEN [drv EXCEPT !.last_opt_warn_ts = now] ELSE drv
         /\ sup' = IF fires
                   THEN [sup EXCEPT !.pc = "bringup", !.last_restart = now]
                   ELSE [sup EXCEPT !.wake = now + SupPeriod]
         /\ hist' = [hist EXCEPT !.sup_mode = drv.mode,
                                 !.sup_idle = OpticalIdle(drv, now),
                                 !.sup_fired = fires]
  /\ UNCHANGED << now, ui_mouse, ui_pad, pump >>

\* ensure_notify_and_init() returns to the supervisor, which sleeps again
BringupReturn ==
  /\ sup.pc = "bringup"
  /\ sup' = [sup EXCEPT !.pc = "sleep", !.wake = now + SupPeriod]
  /\ UNCHANGED << now, drv, ui_mouse, ui_pad, pump, hist >>

\* time passes, to a later instant of the grid
AdvanceTime(grid) ==
  /\ \E t \in grid : t > now /\ now' = t
  /\ UNCHANGED << drv, ui_mouse, ui_pad, pump, sup, hist >>

(***************************************************************************)
(* Frame alphabets                                                         *)
(***************************************************************************)
\* the stick at rest (x12 = y12 = 2048) at the stick offset base
StickRest(base) == (base + 1 :> 8) @@ (base + 2 :> 128)

\* the stick pushed along y12 (x12 = 2048, y12 = 2048 + 16 * 30)
StickPushed(base) == (base + 1 :> 8) @@ (base + 2 :> 158)

\* a full right-device frame: misc byte b5, stick bytes st, optical x16 low
\* byte xlo
RightFull(b5, st, xlo) ==
  Frame(20, (RIGHT_BTN_MISC_IDX :> b5) @@ st @@ (OPT_OFFSET + X_LO_IDX :> xlo))

RunFrames ==
  { RightFull(0, StickRest(STICK_BASE_RIGHT), 0),
    RightFull(0, StickRest(STICK_BASE_RIGHT), 16),
    RightFull(BTN_C, StickRest(STICK_BASE_RIGHT), 0),
    RightFull(0, StickPushed(STICK_BASE_RIGHT), 0) }

\* the driver after n frames data delivered at time t
RECURSIVE Feed(_, _, _, _)
Feed(w, data, t, n) ==
  IF n = 0 THEN w
  ELSE LET w1 == handle_notification(data, t, w)
       IN  IF w1.drv.notif_count > 0 THEN Feed(w1, data, t, n - 1) ELSE w1

\* a right-side driver that has calibrated its stick on frames at rest
WarmDrv ==
  Feed([drv |-> InitDrv("right", TRUE), m |-> InitMouse, p |-> InitPad],
       RightFull(0, StickRest(STICK_BASE_RIGHT), 0), T0, STICK_CAL_SAMPLES).drv

(***************************************************************************)
(* The driver under run(): frames, the pump and the supervisor             *)
(***************************************************************************)
\* the instants of a run: construction, one supervisor period later, the
\* optical-idle threshold later, and one period after that
RunGrid == {T0, T0 + SupPeriod, T0 + SupOptIdle, T0 + SupOptIdle + SupPeriod}

Init ==
  /\ now = T0
  /\ drv = WarmDrv
  /\ hist = InitHist("right", drv, "none")
  /\ ui_mouse = InitMouse
  /\ ui_pad = InitPad
  /\ pump = [started |-> FALSE, wake |-> 0]
  /\ sup = [pc |-> "starting", wake |-> 0, last_restart |-> 0]

Next ==
  \/ \E data \in RunFrames : Notify(data, MaxFrames)
  \/ StartTasks
  \/ PumpTick
  \/ SupervisorTick
  \/ BringupReturn
  \/ AdvanceTime(RunGrid)

Spec == Init /\ [][Next]_vars

(***************************************************************************)
(* Button scenarios: a fresh driver of either side, or of a side not yet   *)
(* known, receives frames that press and release buttons                   *)
(***************************************************************************)
\* a full frame of the right device: face byte b4, misc byte b5
RightBtn(b4, b5) ==
  Frame(20, (RIGHT_BTN_FACE_IDX :> b4) @@ (RIGHT_BTN_MISC_IDX :> b5)
              @@ StickRest(STICK_BASE_RIGHT))

\* a full frame of the left device: misc byte b5, face byte b6
LeftBtn(b5, b6) ==
  Frame(20, (LEFT_BTN_MISC_IDX :> b5) @@ (LEFT_BTN_FACE_IDX :> b6)
              @@ StickRest(STICK_BASE_LEFT))

\* a frame too short to carry a button byte
ShortFrame == Frame(4, << >>)

RightFrames ==
  {RightBtn(b4, b5) : b4 \in {0, BTN_L, BTN_A}, b5 \in {0, BTN_C, BTN_R3}}
    \cup {ShortFrame}

LeftFrames ==
  {LeftBtn(b5, b6) : b5 \in {0, LBTN_L3},
                     b6 \in {0, LBTN_L, LBTN_L + LBTN_ZL, LBTN_DDOWN}}
    \cup {ShortFrame}

FramesOf(device) == IF device = "left" THEN LeftFrames ELSE RightFrames

\* the instants of a button scenario: construction, half the chord hold,
\* the hold and twice the hold later
BtnGrid ==
  {T0, T0 + LEFT_MODE_TOGGLE_HOLD_S \div 2, T0 + LEFT_MODE_TOGGLE_HOLD_S,
   T0 + 2 * LEFT_MODE_TOGGLE_HOLD_S}

InitButtons ==
  /\ now = T0
  /\ \E device \in {"left", "right"} :
       \E side \in {device, "unknown"} :
         /\ drv = InitDrv(side, TRUE)
         /\ hist = InitHist(device, drv, "none")
  /\ ui_mouse = InitMouse
  /\ ui_pad = InitPad
  /\ pump = [started |-> FALSE, wake |-> 0]
  /\ sup = [pc |-> "starting", wake |-> 0, last_restart |-> 0]

NextButtons ==
  \/ \E data \in FramesOf(hist.device) : Notify(data, MaxBtnFrames)
  \/ AdvanceTime(BtnGrid)

SpecButtons == InitButtons /\ [][NextButtons]_vars

(***************************************************************************)
(* Edge-counting scenarios: the button scenarios with the events and the   *)
(* transitions of every button counted                                     *)
(***************************************************************************)
RightEdgeFrames ==
  {RightBtn(b4, b5) : b4 \in {BTN_L, BTN_A}, b5 \in {0, BTN_C}}
    \cup {RightBtn(0, 0)}

LeftEdgeFrames ==
  {LeftBtn(0, b6) : b6 \in {0, LBTN_L, LBTN_L + LBTN_ZL, LBTN_DDOWN}}
    \cup {ShortFrame}

\* the instants of an edge-counting scenario: construction and the chord
\* hold later
EdgeGrid == {T0, T0 + LEFT_MODE_TOGGLE_HOLD_S}

InitEdgeCount ==
  /\ now = T0
  /\ \E device \in {"left", "right"} :
       \E side \in {device, "unknown"} :
         /\ drv = InitDrv(side, TRUE)
         /\ hist = InitHist(device, drv, "edges")
  /\ ui_mouse = InitMouse
  /\ ui_pad = InitPad
  /\ pump = [started |-> FALSE, wake |-> 0]
  /\ sup = [pc |-> "starting", wake |-> 0, last_restart |-> 0]

NextEdgeCount ==
  \/ \E data \in (IF hist.device = "left" THEN LeftEdgeFrames ELSE RightEdgeFrames) :
       Notify(data, MaxEdgeFrames)
  \/ AdvanceTime(EdgeGrid)

SpecEdges == InitEdgeCount /\ [][NextEdgeCount]_vars

(***************************************************************************)
(* Motion scenarios: a right-side driver in mouse mode receives a few      *)
(* frames whose optical counters move, and the pump, ticking every         *)
(* 1/120 s, drains the backlog.  The scenario ends before the first        *)
(* wake-up of the supervisor.                                              *)
(***************************************************************************)
\* a frame with the optical counters x16, y16
OptFrame(x16, y16) ==
  Frame(20, (OPT_OFFSET + X_LO_IDX :> x16 % 256)
              @@ (OPT_OFFSET + X_HI_IDX :> x16 \div 256)
              @@ (OPT_OFFSET + Y_LO_IDX :> y16 % 256)
              @@ (OPT_OFFSET + Y_HI_IDX :> y16 \div 256))

\* x16 = 0x0010, 0x0020, 0xFFF0 with y16 = 0x0020, and a move along both
MotionFrames ==
  {OptFrame(16, 32), OptFrame(32, 32), OptFrame(65520, 32), OptFrame(32, 48)}

MotionEnd == T0 + MotionTicks * PumpPeriod

\* frames arrive during the first FrameWindow pump periods
NotifyMotion(data) ==
  /\ now <= T0 + FrameWindow * PumpPeriod
  /\ Notify(data, MaxOptFrames)

\* a pump period passes; the pump runs when its sleep is over
AdvancePumpPeriod ==
  /\ pump.started
  /\ now < pump.wake
  /\ now + PumpPeriod <= MotionEnd
  /\ now' = now + PumpPeriod
  /\ UNCHANGED << drv, ui_mouse, ui_pad, pump, sup, hist >>

InitMotionRun ==
  /\ now = T0
  /\ drv = InitDrv("right", TRUE)
  /\ hist = InitHist("right", drv, "motion")
  /\ ui_mouse = InitMouse
  /\ ui_pad = InitPad
  /\ pump = [started |-> FALSE, wake |-> 0]
  /\ sup = [pc |-> "starting", wake |-> 0, last_restart |-> 0]

NextMotion ==
  \/ \E data \in MotionFrames : NotifyMotion(data)
  \/ StartTasks
  \/ PumpTick
  \/ AdvancePumpPeriod

SpecMotion == InitMotionRun /\ [][NextMotion]_vars

(***************************************************************************)
(* Properties of the mode controller and the button dispatcher             *)
(***************************************************************************)
\* a frame was handled in this run
FrameSeen == drv.notif_count > hist.frames0

\* C1: whenever _set_mode changes the mode, at its completion no tracked
\* button (LEFT, RIGHT, MIDDLE, any gamepad key) is pressed on a sink or
\* recorded as pressed in the driver's last-emitted state.
C1_ReleasedAtModeChange == hist.toggled => hist.snap = {}

\* a mode change by a frame that found a button pressed
C1_Witness == hist.toggled /\ hist.pre # {}

\* C2: after every frame no key of the inactive mode's sink is pressed: in
\* gamepad mode LEFT, RIGHT, MIDDLE are released, in mouse mode every
\* gamepad key is released.
C2_InactiveSinkReleased ==
  /\ drv.mode = "gamepad" => \A k \in MouseKeys : ~ui_mouse.key[k]
  /\ drv.mode = "mouse" => \A k \in PadKeys : ~ui_pad.key[k]

\* a frame that holds L is handled in gamepad mode from its arrival on
C2_Witness ==
  /\ drv.mode = "gamepad"
  /\ hist.mode0 = "gamepad"
  /\ btn_pressed(hist.data, BTN4, BTN_L)
  /\ hist.side # "left"

\* C3 as stated: over the whole run, for each logical button the press
\* events written equal the 0 -> 1 transitions of its bit and the release
\* events written equal the 1 -> 0 transitions.
C3_EdgeFidelity ==
  \A k \in AllKeys :
    /\ hist.edges.press[k] = hist.edges.rises[k]
    /\ hist.edges.release[k] = hist.edges.falls[k]

\* the keys of the sink of the active mode
ActiveKeys == IF drv.mode = "mouse" THEN MouseKeys ELSE PadKeys

\* C3 amended: counted from the start of the run or from the completion of
\* the last mode change, for each button of the active mode the press
\* events equal the 0 -> 1 transitions and the release events the 1 -> 0
\* transitions of the input the dispatcher reads for it (clear at the start
\* of the count); the buttons of the other mode get no event.
C3_EdgeFidelitySinceModeChange ==
  \A k \in AllKeys :
    IF k \in ActiveKeys
    THEN /\ hist.edges.s_press[k] = hist.edges.s_rises[k]
         /\ hist.edges.s_release[k] = hist.edges.s_falls[k]
    ELSE hist.edges.s_press[k] = 0 /\ hist.edges.s_release[k] = 0

\* LEFT has been pressed and released once since the start of the count,
\* and over the whole run more LEFT releases were written than its bit fell
C3_Witness ==
  /\ hist.edges.s_press["LEFT"] = 1
  /\ hist.edges.s_release["LEFT"] = 1
  /\ hist.edges.release["LEFT"] > hist.edges.falls["LEFT"]

\* C4: on a side that is not left, a frame toggles the mode if and only if
\* its C bit is set and the C bit of the frame before was clear (or there
\* was no frame before).
C4_ToggleOnCEdge ==
  (FrameSeen /\ hist.side # "left")
    => (hist.toggled <=> (CBit(hist.data) /\ ~hist.prev_c))

\* a frame that keeps C set after the toggle and does not toggle again
C4_Witness ==
  /\ hist.side # "left"
  /\ CBit(hist.data)
  /\ hist.prev_c
  /\ ~hist.toggled
  /\ drv.mode = "gamepad"

\* C5: on a left device a frame toggles the mode only if the chord has been
\* set in every frame since a first frame at least 1.2 s earlier, and a
\* continuous hold toggles at most once.
C5_ToggleOnLongHold ==
  hist.side = "left" =>
    /\ hist.chord_toggles <= 1
    /\ hist.toggled =>
         /\ hist.chord_since # None
         /\ drv.last_notif_ts - hist.chord_since >= LEFT_MODE_TOGGLE_HOLD_S

\* a hold that has toggled once goes on, and the next chord frame does not
\* toggle
C5_Witness ==
  /\ hist.side = "left"
  /\ Chord(hist.data)
  /\ hist.chord_toggles = 1
  /\ ~hist.toggled

\* the events of the last frame on the two chord buttons
ChordFrameInMouseMode ==
  FrameSeen /\ hist.side = "left" /\ hist.mode0 = "mouse" /\ Chord(hist.data)

\* C6 as stated: on a left device in mouse mode, a frame with the chord
\* held writes no LEFT or RIGHT event, press or release.
C6_NoEventInChord ==
  (ChordFrameInMouseMode /\ ~hist.toggled) =>
    \A k \in {"LEFT", "RIGHT"} :
      ui_mouse.press[k] = 0 /\ ui_mouse.release[k] = 0

\* C6 amended: on a left device in mouse mode, a frame with the chord held
\* writes no LEFT or RIGHT press event; unless it changes the mode, it
\* writes a release event for exactly the buttons it found pressed.
C6_NoPressInChord ==
  ChordFrameInMouseMode =>
    \A k \in {"LEFT", "RIGHT"} :
      /\ ui_mouse.press[k] = 0
      /\ ~hist.toggled =>
           ui_mouse.release[k] = (IF k \in hist.pre THEN 1 ELSE 0)

\* the first chord frame of a hold finds LEFT pressed and releases it
C6_Witness ==
  /\ ChordFrameInMouseMode
  /\ ~hist.toggled
  /\ "LEFT" \in hist.pre
  /\ ui_mouse.release["LEFT"] = 1

(***************************************************************************)
(* Properties of the supervisor and of the accumulators                    *)
(***************************************************************************)
\* C7: the supervisor never invokes the bring-up at a check where the mode
\* is gamepad.
C7_NoBringupInGamepad == hist.sup_fired => hist.sup_mode = "mouse"

\* a check in gamepad mode with notifications flowing and no optical
\* activity for more than 2 s, at which the bring-up is not invoked
C7_Witness ==
  /\ hist.sup_mode = "gamepad"
  /\ hist.sup_idle
  /\ ~hist.sup_fired
  /\ sup.pc = "sleep"

\* C10: in every state in which the mode is gamepad the motion backlog and
\* the scroll accumulator are zero.
C10_GamepadAccumulatorsZero ==
  drv.mode = "gamepad" =>
    /\ drv.dx_accum = RZero
    /\ drv.dy_accum = RZero
    /\ drv.wheel_accum = 0

\* a frame that found a motion backlog and a scroll remainder has switched
\* to gamepad mode
C10_Witness ==
  /\ drv.mode = "gamepad"
  /\ hist.toggled
  /\ hist.acc0 = {"motion", "wheel"}

(***************************************************************************)
(* Properties of the motion backlog and its pump                           *)
(***************************************************************************)
\* a delta was added within the last 60 ms
NonIdle ==
  /\ hist.motion.n_contrib > 0
  /\ now - drv.last_motion_ts <= MOTION_IDLE_CUTOFF_S

\* the scenario is over: the pump has run its last tick, more than 60 ms
\* after the last frame
MotionDone == now = MotionEnd /\ pump.started /\ pump.wake > now

\* C8 as stated: while motion is non-idle the deltas added and the REL
\* values emitted so far differ by less than 1 on each axis, and after the
\* idle time both accumulators are 0.
C8_Conservation ==
  /\ NonIdle =>
       /\ Abs(hist.motion.contrib_x - hist.motion.emitted_x) < 1
       /\ Abs(hist.motion.contrib_y - hist.motion.emitted_y) < 1
  /\ MotionDone => drv.dx_accum = RZero /\ drv.dy_accum = RZero

\* C8 amended: until a tick applies the idle brake, each accumulator is
\* exactly the deltas added minus the REL values emitted (a backlog that
\* may exceed 1); and after the idle time both accumulators are below 0.1 in
\* magnitude.
C8_ConservationUntilBrake ==
  /\ ~hist.motion.braked =>
       /\ drv.dx_accum = RInt(hist.motion.contrib_x - hist.motion.emitted_x)
       /\ drv.dy_accum = RInt(hist.motion.contrib_y - hist.motion.emitted_y)
  /\ MotionDone => RAbsLt(drv.dx_accum, 1, 10) /\ RAbsLt(drv.dy_accum, 1, 10)

\* the scenario is over with a residue left in an accumulator, and the
\* pump has emitted less than the frames added
C8_Witness ==
  /\ MotionDone
  /\ hist.motion.braked
  /\ drv.dx_accum # RZero
  /\ hist.motion.emitted_x < hist.motion.contrib_x

\* one frame moved the X counter from a to b, no other frame moved a counter
IsolatedMove(a, b) ==
  /\ hist.motion.n_contrib = 1
  /\ hist.motion.from_x = a
  /\ hist.motion.to_x = b
  /\ hist.motion.contrib_y = 0

\* C9 as stated: after an isolated move of the X counter by +16 (0x0010 ->
\* 0x0020), or by +32 across the wrap (0xFFF0 -> 0x0010), the pump has
\* emitted REL_X values that sum to +16, respectively +32, and REL_Y 0.
C9_IsolatedMoveInFull ==
  /\ (MotionDone /\ IsolatedMove(16, 32)) =>
       hist.motion.emitted_x = 16 /\ hist.motion.emitted_y = 0
  /\ (MotionDone /\ IsolatedMove(65520, 16)) =>
       hist.motion.emitted_x = 32 /\ hist.motion.emitted_y = 0

\* C9 amended: after such a move the frames have added +16, respectively
\* +32, and the pump has emitted REL_X values that sum to 14 or 15,
\* respectively 29 or 30, and REL_Y 0; the idle brake drops the rest.
C9_IsolatedMoveBraked ==
  /\ (MotionDone /\ IsolatedMove(16, 32)) =>
       /\ hist.motion.contrib_x = 16
       /\ hist.motion.emitted_x \in {14, 15}
       /\ hist.motion.emitted_y = 0
  /\ (MotionDone /\ IsolatedMove(65520, 16)) =>
       /\ hist.motion.contrib_x = 32
       /\ hist.motion.emitted_x \in {29, 30}
       /\ hist.motion.emitted_y = 0

\* the drain of an isolated move by +16 is over
C9_Witness == MotionDone /\ IsolatedMove(16, 32) /\ hist.motion.emitted_x = 14

(***************************************************************************)
(* delta_u16 on sampled counter values: the counter before, and the true   *)
(* signed change that the next frame reports modulo 2^16                   *)
(***************************************************************************)
DeltaPrevs ==
  {0, 1, 16, 255, 256, 4095, 32767, 32768, 32769, 65280, 65520, 65535}

DeltaChanges ==
  {-32768, -32767, -32752, -256, -32, -1, 0, 1, 32, 256, 32752, 32767}

\* the counter the frame carries after the change d
CounterAfter(prev, d) == (prev + d) % 65536

InitDelta ==
  /\ now = T0
  /\ drv = InitDrv("right", TRUE)
  /\ ui_mouse = InitMouse
  /\ ui_pad = InitPad
  /\ pump = [started |-> FALSE, wake |-> 0]
  /\ sup = [pc |-> "starting", wake |-> 0, last_restart |-> 0]
  /\ \E prev \in DeltaPrevs, d \in DeltaChanges :
       hist = [prev |-> prev, d |-> d, curr |-> CounterAfter(prev, d),
               applied |-> FALSE, out |-> 0]

\* _handle_optical_motion computes the delta of the frame's counter
ApplyDelta ==
  /\ ~hist.applied
  /\ hist' = [hist EXCEPT !.applied = TRUE,
                          !.out = delta_u16(hist.curr, hist.prev)]
  /\ UNCHANGED << now, drv, ui_mouse, ui_pad, pump, sup >>

NextDelta == ApplyDelta

SpecDelta == InitDelta /\ [][NextDelta]_vars

\* C20: for every counter value prev in [0, 2^16) and every true signed
\* change d in [-2^15, 2^15), delta_u16((prev + d) mod 2^16, prev) = d.
C20_DeltaWrap == hist.applied => hist.out = hist.d

\* a change of -32768 from counter 1 (the frame carries 32769) is recovered
C20_Witness ==
  hist.applied /\ hist.prev = 1 /\ hist.d = -32768 /\ hist.curr = 32769

(***************************************************************************)
(* Scroll scenarios: a calibrated right driver in mouse mode receives      *)
(* frames with the stick at rest, pushed, or fully deflected               *)
(***************************************************************************)
MaxScrollFrames == 4

\* the stick fully deflected along y12 (x12 = 2048, y12 = 4095)
StickFull(base) == (base + 1 :> 248) @@ (base + 2 :> 255)

ScrollFrames ==
  { RightFull(0, StickRest(STICK_BASE_RIGHT), 0),
    RightFull(0, StickPushed(STICK_BASE_RIGHT), 0),
    RightFull(0, StickFull(STICK_BASE_RIGHT), 0) }

\* frames 1/60 s apart, and one that comes later than the largest dt
ScrollGrid == {T0, T0 + 60, T0 + 120, T0 + 180, T0 + 240, T0 + 720}

InitScroll ==
  /\ now = T0
  /\ \E hires \in BOOLEAN : drv = [WarmDrv EXCEPT !.hires = hires]
  /\ ui_mouse = InitMouse
  /\ ui_pad = InitPad
  /\ pump = [started |-> FALSE, wake |-> 0]
  /\ sup = [pc |-> "starting", wake |-> 0, last_restart |-> 0]
  /\ hist = [ track |-> "scroll",
              frames0 |-> drv.notif_count,
              added |-> 0,       \* what the frames added to _wheel_accum
              hi_units |-> 0,    \* sum of the REL_WHEEL_HI_RES values
              hi_events |-> 0,   \* frames that wrote REL_WHEEL_HI_RES
              lo_steps |-> 0,    \* sum of the REL_WHEEL values
              lo_events |-> 0 ]  \* frames that wrote REL_WHEEL

\* the notification callback on a stick frame; the wheel events it wrote
NotifyScroll(data) ==
  /\ drv.notif_count < hist.frames0 + MaxScrollFrames
  /\ LET w1 == handle_notification(data, now, World)
     IN  /\ drv' = w1.drv
         /\ ui_mouse' = w1.m
         /\ ui_pad' = w1.p
         /\ hist' = [hist EXCEPT
              !.added = @ + (w1.drv.wheel_accum - drv.wheel_accum)
                          + w1.m.wheel_hi * HiResUnit + w1.m.wheel * LineUnit,
              !.hi_units = @ + w1.m.wheel_hi,
              !.hi_events = @ + (IF w1.m.wheel_hi # 0 THEN 1 ELSE 0),
              !.lo_steps = @ + w1.m.wheel,
              !.lo_events = @ + (IF w1.m.wheel # 0 THEN 1 ELSE 0)]
  /\ UNCHANGED << now, pump, sup >>

NextScroll ==
  \/ \E data \in ScrollFrames : NotifyScroll(data)
  \/ AdvanceTime(ScrollGrid)

SpecScroll == InitScroll /\ [][NextScroll]_vars

\* C19: in mouse mode with the stick held beyond the deadzone the scroll
\* accumulator produces high-resolution units and, once a whole line has
\* accumulated, low-res REL_WHEEL steps: when the frames have added a line
\* or more, at least one REL_WHEEL event has been written.
C19_LowResOnceALine ==
  (drv.mode = "mouse" /\ Abs(hist.added) >= LineUnit) => hist.lo_events >= 1

(***************************************************************************)
(* The supervisor and a notification stall                                 *)
(***************************************************************************)
\* the supervisor loop of run() takes a step: its check after the sleep
SupervisorChecks ==
  sup.pc = "sleep" /\ now >= sup.wake /\ sup' # sup

\* C13: notification stall recovery: a supervisor check made when more than
\* 2 s have elapsed since the last notification and more than 3 s since the
\* last re-initialisation invokes the bring-up, in either mode.
C13_StallTriggersBringup ==
  [][(/\ SupervisorChecks
      /\ drv.last_notif_ts # 0
      /\ now - drv.last_notif_ts > 2 * 3600
      /\ now - sup.last_restart > SupRestartEvery)
       => sup'.pc = "bringup"]_vars

\* C15: every emission unit ends with a synchronisation marker on the sink
\* it wrote to: when the frame handler has returned, or the pump or the
\* supervisor is suspended, neither sink holds a written event that no
\* syn() on that sink has followed.
C15_NothingPending == ~ui_mouse.pending /\ ~ui_pad.pending

\* a frame that wrote hi-res wheel units, or a pump tick that wrote REL_X and
\* REL_Y, has left nothing pending
C15_Witness ==
  /\ ~ui_mouse.pending
  /\ ~ui_pad.pending
  /\ \/ ui_mouse.wheel_hi # 0
     \/ ui_mouse.n_rel > 0

(***************************************************************************)
(* run() from its first line: connect(), start() with the start-up         *)
(* bring-up, start_motion_pump(), and the supervisor loop with the         *)
(* bring-ups it invokes.  sup is the run() coroutine: where it is, the     *)
(* timer it sleeps on, the deadline of the wait it is in, the exception    *)
(* that ended it, and the position inside ensure_notify_and_init.          *)
(***************************************************************************)
\* timeouts of connect(): services resolved 8 s, characteristics 60 s
ServicesTimeout == 28800
GattTimeout == 216000

\* ensure_notify_and_init: the attempt schedule (delay_s, do_cycle), the
\* sleep after stop_notify 0.05 s, the waits for the first notification 1 s
\* and for optical activity 0.8 s
attempts ==
  << [delay_s |-> 360, do_cycle |-> FALSE],
     [delay_s |-> 720, do_cycle |-> TRUE],
     [delay_s |-> 1260, do_cycle |-> TRUE],
     [delay_s |-> 1800, do_cycle |-> TRUE] >>
StopNotifySleep == 180
FirstNotifTimeout == 3600
OptActiveTimeout == 2880

\* bounds of the run: frames delivered, and how long the supervisor loop is
\* followed, in periods of its sleep
MaxBootFrames == 3
MaxBootPeriods == 8

\* the fields of the driver that connect() and start() set, and the
\* Notifying state of the characteristic behind _notify_ch
BootDrv(side) ==
  InitDrv(side, TRUE) @@
  [ bringup_lock |-> FALSE,       \* _bringup_lock is held
    handler_installed |-> FALSE,  \* _handler_installed
    notify_ch |-> FALSE,          \* _notify_ch and _ctrl_ch are cached
    notifying |-> FALSE ]         \* start_notify() was called last

\* what the run has shown so far
BootHist(d) ==
  InitHist("right", d, "none") @@
  [ fault |-> "none",          \* what went wrong in connect()
    init_writes |-> 0,         \* optical-init writes sent
    bu_calls |-> 0,            \* invocations of ensure_notify_and_init
    bu_begin |-> None,         \* when the last invocation began
    bu_prev_begin |-> None,    \* when the one before began
    bu_caller |-> "none",      \* who made the last invocation
    bu_ended |-> "none",       \* how it ended: "return", "exhausted", "raise"
    bu_presses |-> {},         \* keys with a press event since it began
    bu_ops |-> << >> ]         \* what it has done, in order, and when

InitBoot ==
  /\ now = T0
  /\ drv = BootDrv("right")
  /\ hist = BootHist(drv)
  /\ ui_mouse = InitMouse
  /\ ui_pad = InitPad
  /\ pump = [started |-> FALSE, wake |-> 0]
  /\ sup = [ pc |-> "connect", wake |-> 0, last_restart |-> 0,
             error |-> "none", deadline |-> 0,
             caller |-> "start", bu |-> "acquire", attempt |-> 1,
             start_cnt |-> 0 ]

\* the last invocation of ensure_notify_and_init has done op at time t:
\* "stop" and "start" are the notify calls, "w02" and "w04" the two init
\* writes, "notif" is _wait_first_notification returning True
Did(h, op, t) == [h EXCEPT !.bu_ops = Append(@, [op |-> op, t |-> t])]

\* an exception leaves run(): the process ends with the error
Fail(err) == [sup EXCEPT !.pc = "failed", !.error = err]

\* connect(): _find_device_path() looks the MAC up in the object tree
ConnectFind ==
  /\ sup.pc = "connect"
  /\ \E found \in BOOLEAN :
       /\ sup' = IF found THEN [sup EXCEPT !.pc = "dev_connect"]
                 ELSE Fail("device_not_found")
       /\ hist' = IF found THEN hist
                  ELSE [hist EXCEPT !.fault = "device_not_found"]
  /\ UNCHANGED << now, drv, ui_mouse, ui_pad, pump >>

\* connect(): dev.call_connect(); "Already connected" is tolerated, then
\* _wait_services_resolved(8.0) begins
ConnectDevice ==
  /\ sup.pc = "dev_connect"
  /\ \E r \in {"ok", "already", "error"} :
       /\ sup' = IF r = "error" THEN Fail("connect_failed")
                 ELSE [sup EXCEPT !.pc = "services",
                                  !.deadline = now + ServicesTimeout]
       /\ hist' = IF r = "error" THEN [hist EXCEPT !.fault = "connect_failed"]
                  ELSE hist
  /\ UNCHANGED << now, drv, ui_mouse, ui_pad, pump >>

\* _wait_services_resolved: ServicesResolved is read true before the
\* deadline, or the deadline passes and RuntimeError is raised; then
\* _refresh_objects_until_gatt(60.0) begins
WaitServices ==
  /\ sup.pc = "services"
  /\ \/ /\ now < sup.deadline
        /\ sup' = [sup EXCEPT !.pc = "gatt", !.deadline = now + GattTimeout]
        /\ hist' = hist
     \/ /\ now >= sup.deadline
        /\ sup' = Fail("services_timeout")
        /\ hist' = [hist EXCEPT !.fault = "services_timeout"]
  /\ UNCHANGED << now, drv, ui_mouse, ui_pad, pump >>

\* a connect() that goes on when the characteristics never appeared
WaitGattIgnoresOk ==
  /\ sup.pc = "gatt"
  /\ \/ /\ now < sup.deadline
        /\ hist' = hist
     \/ /\ now >= sup.deadline
        /\ hist' = [hist EXCEPT !.fault = "gatt_timeout"]
  /\ sup' = [sup EXCEPT !.pc = "start"]
  /\ UNCHANGED << now, drv, ui_mouse, ui_pad, pump >>

\* _refresh_objects_until_gatt: both characteristics are found before the
\* deadline and _pick_characteristics() takes them, or the deadline passes,
\* ok is False and RuntimeError is raised
WaitGatt ==
  /\ sup.pc = "gatt"
  /\ \/ /\ now < sup.deadline
        /\ sup' = [sup EXCEPT !.pc = "start"]
        /\ hist' = hist
     \/ /\ now >= sup.deadline
        /\ sup' = Fail("gatt_timeout")
        /\ hist' = [hist EXCEPT !.fault = "gatt_timeout"]
  /\ UNCHANGED << now, drv, ui_mouse, ui_pad, pump >>

\* start(): the characteristic proxies are cached, the notification handler
\* is installed once, and ensure_notify_and_init() is awaited
Start ==
  /\ sup.pc = "start"
  /\ drv' = [drv EXCEPT !.notify_ch = TRUE, !.handler_installed = TRUE]
  /\ sup' = [sup EXCEPT !.pc = "bringup", !.caller = "start",
                        !.bu = "acquire"]
  /\ UNCHANGED << now, ui_mouse, ui_pad, pump, hist >>

\* __aexit__ of `async with self._bringup_lock`, left without releasing
ExitLockKept(d) == d

\* __aexit__ of `async with self._bringup_lock`: on return and on exception
ExitLock(d) == [d EXCEPT !.bringup_lock = FALSE]

\* run() after ensure_notify_and_init has ended at time t: how = "raise"
\* with the exception err, or a normal return.  start() lets the exception
\* through and run() ends; the supervisor catches it and goes on to sleep
AfterBringup(s, how, err, t) ==
  LET s1 == [s EXCEPT !.bu = "acquire", !.attempt = 1, !.caller = "sup"]
  IN  IF s.caller = "start"
      THEN IF how = "raise"
           THEN [s1 EXCEPT !.pc = "failed", !.error = err, !.caller = "start"]
           ELSE [s1 EXCEPT !.pc = "starting"]
      ELSE [s1 EXCEPT !.pc = "sleep", !.wake = t + SupPeriod]

\* attempts that never cycle the notifications
AttemptStepNoCycle(a) == "start_notify"

\* the first step of an attempt
AttemptStep(a) == IF attempts[a].do_cycle THEN "stop" ELSE "start_notify"

\* ensure_notify_and_init: the interfaces are cached, the lock is taken
\* when it is free, and the first attempt begins
BuAcquire ==
  /\ sup.pc = "bringup" /\ sup.bu = "acquire"
  /\ IF ~drv.notify_ch
     THEN /\ sup' = AfterBringup(sup, "raise", "not_started", now)
          /\ UNCHANGED drv
          /\ hist' = [hist EXCEPT !.bu_calls = @ + 1,
                                  !.bu_prev_begin = hist.bu_begin,
                                  !.bu_begin = now,
                                  !.bu_caller = sup.caller,
                                  !.bu_ended = "raise",
                                  !.bu_ops = << >>]
     ELSE /\ ~drv.bringup_lock
          /\ drv' = [drv EXCEPT !.bringup_lock = TRUE]
          /\ sup' = [sup EXCEPT !.attempt = 1, !.bu = AttemptStep(1)]
          /\ hist' = [hist EXCEPT !.bu_calls = @ + 1,
                                  !.bu_prev_begin = hist.bu_begin,
                                  !.bu_begin = now,
                                  !.bu_caller = sup.caller,
                                  !.bu_ended = "none",
                                  !.bu_presses = {},
                                  !.bu_ops = << >>]
  /\ UNCHANGED << now, ui_mouse, ui_pad, pump >>

\* safe_stop_notify(): an exception is swallowed; then sleep 0.05 s
BuStopNotify ==
  /\ sup.pc = "bringup" /\ sup.bu = "stop"
  /\ \E ok \in BOOLEAN :
       drv' = IF ok THEN [drv EXCEPT !.notifying = FALSE] ELSE drv
  /\ sup' = [sup EXCEPT !.bu = "start_notify", !.wake = now + StopNotifySleep]
  /\ hist' = Did(hist, "stop", now)
  /\ UNCHANGED << now, ui_mouse, ui_pad, pump >>

\* safe_start_notify(): "In Progress" is swallowed, any other exception
\* leaves ensure_notify_and_init; then sleep delay_s
BuStartNotify ==
  /\ sup.pc = "bringup" /\ sup.bu = "start_notify"
  /\ now >= sup.wake
  /\ \E r \in {"ok", "in_progress", "error"} :
       IF r = "error"
       THEN /\ drv' = ExitLock(drv)
            /\ sup' = AfterBringup(sup, "raise", "notify_enable", now)
            /\ hist' = [Did(hist, "start", now) EXCEPT !.bu_ended = "raise"]
       ELSE /\ drv' = [drv EXCEPT !.notifying = TRUE]
            /\ sup' = [sup EXCEPT !.bu = "init",
                                  !.wake = now + attempts[sup.attempt].delay_s]
            /\ hist' = Did(hist, "start", now)
  /\ UNCHANGED << now, ui_mouse, ui_pad, pump >>

\* send_optical_init(): two write_cmd; an exception of call_write_value
\* leaves ensure_notify_and_init; then _wait_first_notification(1.0) begins
BuInit ==
  /\ sup.pc = "bringup" /\ sup.bu = "init"
  /\ now >= sup.wake
  /\ \E sent \in 0..2 :
       IF sent < 2
       THEN /\ drv' = ExitLock(drv)
            /\ sup' = AfterBringup(sup, "raise", "write_value", now)
            /\ hist' = [(IF sent = 1 THEN Did(hist, "w02", now) ELSE hist)
                          EXCEPT !.init_writes = @ + sent,
                                 !.bu_ended = "raise"]
       ELSE /\ drv' = drv
            /\ sup' = [sup EXCEPT !.bu = "wait",
                                  !.start_cnt = drv.notif_count,
                                  !.deadline = now + FirstNotifTimeout]
            /\ hist' = [Did(Did(hist, "w02", now), "w04", now)
                          EXCEPT !.init_writes = @ + 2]
  /\ UNCHANGED << now, ui_mouse, ui_pad, pump >>

\* _wait_first_notification: a notification was counted before the deadline
\* and _wait_optical_active(0.8) begins; or the deadline passes and the next
\* attempt begins; after the last attempt the error is logged and
\* ensure_notify_and_init returns
BuWait ==
  /\ sup.pc = "bringup" /\ sup.bu = "wait"
  /\ \/ /\ now < sup.deadline
        /\ drv.notif_count > sup.start_cnt
        /\ sup' = [sup EXCEPT !.bu = "optwait",
                              !.deadline = now + OptActiveTimeout]
        /\ hist' = Did(hist, "notif", now)
        /\ UNCHANGED drv
     \/ /\ now >= sup.deadline
        /\ sup.attempt < Len(attempts)
        /\ sup' = [sup EXCEPT !.attempt = @ + 1,
                              !.bu = AttemptStep(sup.attempt + 1)]
        /\ UNCHANGED << drv, hist >>
     \/ /\ now >= sup.deadline
        /\ sup.attempt = Len(attempts)
        /\ drv' = ExitLock(drv)
        /\ sup' = AfterBringup(sup, "return", "none", now)
        /\ hist' = [hist EXCEPT !.bu_ended = "exhausted"]
  /\ UNCHANGED << now, ui_mouse, ui_pad, pump >>

\* _wait_optical_active: the last optical slice is active before the
\* deadline, or the deadline passes; ensure_notify_and_init returns
BuOptWait ==
  /\ sup.pc = "bringup" /\ sup.bu = "optwait"
  /\ \/ now < sup.deadline /\ optical_active(drv.last_opt)
     \/ now >= sup.deadline
  /\ drv' = ExitLock(drv)
  /\ sup' = AfterBringup(sup, "return", "none", now)
  /\ hist' = [hist EXCEPT !.bu_ended = "return"]
  /\ UNCHANGED << now, ui_mouse, ui_pad, pump >>

\* a full frame of the right device with the stick at rest: face byte b4,
\* optical x16 low byte xlo
BootFrame(b4, xlo) ==
  Frame(20, (RIGHT_BTN_FACE_IDX :> b4) @@ StickRest(STICK_BASE_RIGHT)
              @@ (OPT_OFFSET + X_LO_IDX :> xlo))

\* R held (LEFT in mouse mode) with no optical activity, and optical
\* activity with nothing held
BootFrames == {BootFrame(BTN_L, 0), BootFrame(0, 16)}

\* on_props_changed: a notification arrives once the handler is installed
\* and notifications are enabled, while run() has not ended
NotifyBoot(data) ==
  /\ sup.pc # "failed"
  /\ drv.handler_installed /\ drv.notifying
  /\ drv.notif_count < hist.frames0 + MaxBootFrames
  /\ LET wb == NotifBegin(data, now, World)
         wt == ModeToggle(data, now, wb)
         w1 == handle_notification(data, now, World)
     IN  /\ drv' = w1.drv
         /\ ui_mouse' = w1.m
         /\ ui_pad' = w1.p
         /\ hist' = [FrameHist(data, now, World, wb, wt, w1) EXCEPT
                       !.bu_presses =
                         @ \cup {k \in AllKeys : Events(w1, k, TRUE) > 0}]
  /\ UNCHANGED << now, pump, sup >>

\* the timer run() is suspended on: the end of a sleep or the deadline of a
\* wait; the supervisor loop is followed for MaxBootPeriods
BootTimers ==
  IF sup.pc = "sleep"
  THEN {t \in {sup.wake} : t <= T0 + MaxBootPeriods * SupPeriod}
  ELSE IF sup.pc \in {"services", "gatt"} THEN {sup.deadline}
  ELSE IF sup.pc = "bringup" /\ sup.bu \in {"start_notify", "init"}
  THEN {sup.wake}
  ELSE IF sup.pc = "bringup" /\ sup.bu \in {"wait", "optwait"}
  THEN {sup.deadline}
  ELSE {}

\* time passes until the timer expires
AdvanceBoot ==
  /\ \E t \in BootTimers : t > now /\ now' = t
  /\ UNCHANGED << drv, ui_mouse, ui_pad, pump, sup, hist >>

NextBoot ==
  \/ ConnectFind
  \/ ConnectDevice
  \/ WaitServices
  \/ WaitGatt
  \/ Start
  \/ BuAcquire
  \/ BuStopNotify
  \/ BuStartNotify
  \/ BuInit
  \/ BuWait
  \/ BuOptWait
  \/ StartTasks
  \/ SupervisorTick
  \/ \E data \in BootFrames : NotifyBoot(data)
  \/ AdvanceBoot

SpecBoot == InitBoot /\ [][NextBoot]_vars

(***************************************************************************)
(* Claims about run(): connect, bring-up, restart                          *)
(***************************************************************************)
\* C11: if no notification arrives during any of the four attempts of the
\* start-up bring-up, ensure_notify_and_init reports an error to its caller:
\* run() ends with the error and does not start the pump and the supervisor.
C11_ExhaustionIsFatal ==
  (hist.bu_caller = "start" /\ hist.bu_ended = "exhausted")
    => (sup.pc = "failed" /\ sup.error # "none" /\ ~pump.started)

\* C12: at most one bring-up sequence is in progress at any time, and the
\* lock is released when an invocation ends, also by an exception: the lock
\* is held exactly while the one invocation of run() is between taking it
\* and its end.
C12_BringupSerialised ==
  drv.bringup_lock <=> (sup.pc = "bringup" /\ sup.bu # "acquire")

\* a bring-up invoked by the supervisor, after the one of start(), has ended
\* by an exception and the lock is free
C12_Witness ==
  /\ hist.bu_calls = 2
  /\ hist.bu_caller = "sup"
  /\ hist.bu_ended = "raise"
  /\ ~drv.bringup_lock

\* C14: on every recoverable restart the driver emits release events for
\* every tracked button, so a button pressed before the restart is not left
\* pressed: once a bring-up invoked by the supervisor has ended, every key
\* that is pressed on a sink has had a press event since that bring-up began.
C14_RestartReleases ==
  (hist.bu_caller = "sup" /\ hist.bu_ended # "none")
    => Pressed(World) \subseteq hist.bu_presses

\* C16: any two consecutive bring-up invocations are at least 3 s apart, and
\* the optical-idle warning is emitted at most once per 5 s.
C16_RateLimits ==
  /\ [](hist.bu_calls >= 2
          => hist.bu_begin - hist.bu_prev_begin >= SupRestartEvery)
  /\ [][(drv.last_opt_warn_ts # 0
          /\ drv'.last_opt_warn_ts # drv.last_opt_warn_ts)
          => drv'.last_opt_warn_ts - drv.last_opt_warn_ts >= SupWarnEvery]_vars

\* C17: device not found, the services-resolved timeout and the
\* characteristic-discovery timeout are fatal: connect() fails with the
\* error, run() ends with it, and no notification subscription, init write,
\* pump task or supervisor loop has been started.
C17_ConnectFailuresFatal ==
  hist.fault \in {"device_not_found", "services_timeout", "gatt_timeout"}
    => /\ sup.pc = "failed"
       /\ sup.error = hist.fault
       /\ ~drv.handler_installed
       /\ ~drv.notifying
       /\ hist.init_writes = 0
       /\ hist.bu_calls = 0
       /\ ~pump.started

\* the characteristics did not appear within 60 s of the services resolving
C17_Witness ==
  /\ hist.fault = "gatt_timeout"
  /\ sup.pc = "failed"
  /\ now >= T0 + GattTimeout

\* C18: a failed control write or notify-enable during any bring-up, the
\* start-up bring-up included, is recoverable: it does not end run().
C18_BringupFailureRecoverable ==
  sup.pc = "failed" => sup.error \notin {"notify_enable", "write_value"}

(***************************************************************************)
(* decode_stick_12 on sampled inputs: a pair of 12-bit axis values packed  *)
(* into three bytes, or three bytes as they come                           *)
(***************************************************************************)
StickAxisValues == {0, 1, 15, 16, 255, 256, 2047, 2048, 3840, 4095}

StickByteValues == {0, 1, 15, 16, 127, 128, 240, 255}

\* the three stick bytes that carry x and y: b0 = x & 0xFF,
\* b1 = ((x >> 8) & 0x0F) | ((y & 0x0F) << 4), b2 = (y >> 4) & 0xFF
StickPack(x, y) ==
  << x % 256, ((x \div 256) % 16) + 16 * (y % 16), (y \div 16) % 256 >>

InitStick ==
  /\ now = T0
  /\ drv = InitDrv("right", TRUE)
  /\ ui_mouse = InitMouse
  /\ ui_pad = InitPad
  /\ pump = [started |-> FALSE, wake |-> 0]
  /\ sup = [pc |-> "starting", wake |-> 0, last_restart |-> 0]
  /\ \/ \E x \in StickAxisValues, y \in StickAxisValues :
          hist = [from |-> "axes", x |-> x, y |-> y, b |-> StickPack(x, y),
                  decoded |-> FALSE, out |-> << 0, 0 >>]
     \/ \E b0 \in StickByteValues, b1 \in StickByteValues,
           b2 \in StickByteValues :
          hist = [from |-> "bytes", x |-> 0, y |-> 0, b |-> << b0, b1, b2 >>,
                  decoded |-> FALSE, out |-> << 0, 0 >>]

\* _decode_stick_and_calibrate decodes the three stick bytes of the frame
DecodeStick ==
  /\ ~hist.decoded
  /\ hist' = [hist EXCEPT !.decoded = TRUE,
                          !.out = decode_stick_12(hist.b[1], hist.b[2], hist.b[3])]
  /\ UNCHANGED << now, drv, ui_mouse, ui_pad, pump, sup >>

NextStick == DecodeStick

SpecStick == InitStick /\ [][NextStick]_vars

\* C21: stick packing round-trip: for x, y in [0, 2^12) decode_stick_12 of
\* the bytes that pack (x, y) returns (x, y); and for every byte triple the
\* decoded x and y lie in [0, 4096).
C21_StickRoundTrip ==
  hist.decoded =>
    /\ hist.from = "axes" => hist.out = << hist.x, hist.y >>
    /\ hist.out[1] \in 0..4095
    /\ hist.out[2] \in 0..4095

\* x = 2047 and y = 3840 (both nibbles of b1 in use) have come back
C21_Witness ==
  /\ hist.decoded /\ hist.from = "axes"
  /\ hist.x = 2047 /\ hist.y = 3840
  /\ hist.b = << 255, 7, 240 >>

(***************************************************************************)
(* Side inference: a driver whose side the manufacturer data gave, or left *)
(* unknown, receives frames that hint at either side, at both or at none   *)
(***************************************************************************)
MaxSideFrames == 3

\* a full frame with byte 4 (right face buttons) and byte 6 (left face
\* buttons) as given
HintFrame(b4, b6) == Frame(20, (4 :> b4) @@ (6 :> b6))

SideFrames ==
  {HintFrame(b4, b6) : b4 \in {0, BTN_A}, b6 \in {0, LBTN_L}} \cup {ShortFrame}

\* side, face-button byte, misc-button byte, stick base
OffsetSet(d) == << d.side, d.btn_face_idx, d.btn_misc_idx, d.stick_base_idx >>

InitSide ==
  /\ now = T0
  /\ \E side \in {"unknown", "left", "right"} :
       /\ drv = InitDrv(side, TRUE)
       /\ hist = InitHist("right", drv, "none") @@ [side0 |-> side]
  /\ ui_mouse = InitMouse
  /\ ui_pad = InitPad
  /\ pump = [started |-> FALSE, wake |-> 0]
  /\ sup = [pc |-> "starting", wake |-> 0, last_restart |-> 0]

NextSide ==
  \/ \E data \in SideFrames : Notify(data, MaxSideFrames)
  \/ AdvanceTime(EdgeGrid)

SpecSide == InitSide /\ [][NextSide]_vars

\* C22: once side has left unknown (by manufacturer data or by the
\* first-frame fallback), side and the offset set (face-button byte,
\* misc-button byte, stick base) never change again, whatever frames arrive.
C22_SideFixed ==
  [][drv.side # "unknown" => OffsetSet(drv)' = OffsetSet(drv)]_vars

\* a driver that started unknown and inferred left has then handled a frame
\* that hints at the right side only, and is still left
C22_Witness ==
  /\ hist.side0 = "unknown"
  /\ hist.side = "left"
  /\ hist.data = HintFrame(BTN_A, 0)
  /\ OffsetSet(drv) = << "left", LEFT_BTN_FACE_IDX, LEFT_BTN_MISC_IDX, STICK_BASE_LEFT >>

\* C23: the session passes through its states in order; the running state
\* (motion pump and supervisor started) is never reached without
\* notifications having been enabled, the optical init sent, and a
\* notification received: all this holds when run() is about to start the
\* pump.
C23_RunningAfterConfirmedNotify ==
  sup.pc = "starting"
    => /\ drv.handler_installed
       /\ drv.notifying
       /\ hist.init_writes >= 2
       /\ drv.notif_count > 0

(***************************************************************************)
(* The order of what one frame does                                        *)
(***************************************************************************)
MaxOrderFrames == 3

\* frames of the right device: C and R3 in the misc byte, the stick at rest
\* or pushed, the optical counter at 16; and a frame too short for the
\* optical slice
OrderFrames ==
  { RightFull(b5, st, xlo) : b5 \in {0, BTN_C, BTN_R3, BTN_C + BTN_R3},
                             st \in {StickRest(STICK_BASE_RIGHT), StickFull(STICK_BASE_RIGHT)},
                             xlo \in {16} }
    \cup { Frame(OPT_OFFSET, (RIGHT_BTN_MISC_IDX :> BTN_R3)) }

InitOrder ==
  /\ now = T0
  /\ drv = WarmDrv
  /\ hist = InitHist("right", drv, "none")
  /\ ui_mouse = InitMouse @@ [order |-> << >>]
  /\ ui_pad = InitPad @@ [order |-> << >>]
  /\ pump = [started |-> FALSE, wake |-> 0]
  /\ sup = [pc |-> "starting", wake |-> 0, last_restart |-> 0]

NextOrder ==
  \/ \E data \in OrderFrames : Notify(data, MaxOrderFrames)
  \/ AdvanceTime({T0 + 60, T0 + 120})

SpecOrder == InitOrder /\ [][NextOrder]_vars

\* a sequence of kinds with every run of one kind written once
RECURSIVE Collapse(_)
Collapse(s) ==
  IF Len(s) <= 1 THEN s
  ELSE IF s[1] = s[2] THEN Collapse(Tail(s))
  ELSE << s[1] >> \o Collapse(Tail(s))

\* C24: in the handling of one frame the mode toggle comes first (its
\* releases open the order of both sinks), then the stick update (wheel with
\* its syn in mouse mode, absolute axes with their syn in gamepad mode), then
\* the buttons, then the optical extraction, then the closing syn; the frame
\* that toggles the mode does its stick, buttons and optical extraction in
\* the new mode, so the sink of the old mode sees the releases only.
C24_FrameOrder ==
  hist.data # << >> =>
    IF drv.mode = "mouse"
    THEN /\ ui_mouse.order \in
              { Collapse((IF hist.toggled THEN << "key", "syn" >> ELSE << >>)
                           \o st \o bt \o op \o << "syn" >>) :
                  st \in {<< >>, << "wheel", "syn" >>},
                  bt \in {<< >>, << "key" >>},
                  op \in {<< >>, << "opt" >>} }
         /\ ui_pad.order = IF hist.toggled THEN << "key", "abs", "syn" >> ELSE << >>
    ELSE /\ ui_pad.order \in
              { Collapse((IF hist.toggled THEN << "key", "abs", "syn" >> ELSE << >>)
                           \o st \o bt \o << "syn" >>) :
                  st \in {<< >>, << "abs", "syn" >>},
                  bt \in {<< >>, << "key" >>} }
         /\ ui_mouse.order = IF hist.toggled THEN << "key", "syn" >> ELSE << >>

\* the frame that toggled to mouse mode scrolled, pressed MIDDLE and ran the
\* optical extraction, all after the releases of the toggle
C24_Witness ==
  /\ hist.toggled
  /\ drv.mode = "mouse"
  /\ ui_mouse.order = << "key", "syn", "wheel", "syn", "key", "opt", "syn" >>
  /\ ui_pad.order = << "key", "abs", "syn" >>

(***************************************************************************)
(* Two drivers scrolling side by side                                      *)
(***************************************************************************)
MaxMonoFrames == 4

\* deflections beyond the deadzone, the largest the full travel
MonoDeflections == {100, 700, 2047}

\* a frame of the right device with the stick at (2048, y12)
StickAt(y12) ==
  LET b == StickPack(2048, y12)
  IN  RightFull(0, (STICK_BASE_RIGHT :> b[1]) @@ (STICK_BASE_RIGHT + 1 :> b[2])
                     @@ (STICK_BASE_RIGHT + 2 :> b[3]), 0)

\* what a handler wrote to the wheel, in 1/5760 line
WheelWritten(m) == m.wheel_hi * HiResUnit + m.wheel * LineUnit

\* drv is held at the deflection dir * a and hist.b, a second driver in the
\* same state, at dir * b with b >= a; both have a remainder of an earlier
\* scroll in _wheel_accum (below one unit of what the build emits)
InitMono ==
  /\ now = T0
  /\ ui_mouse = InitMouse
  /\ ui_pad = InitPad
  /\ pump = [started |-> FALSE, wake |-> 0]
  /\ sup = [pc |-> "starting", wake |-> 0, last_restart |-> 0]
  /\ \E hires \in BOOLEAN, rem \in {-1, 0, 1} :
       drv = [WarmDrv EXCEPT !.hires = hires,
                             !.wheel_accum = rem * (IF hires THEN HiResUnit \div 2
                                                    ELSE LineUnit - 120)]
  /\ \E dir \in {-1, 1}, a \in MonoDeflections, b \in MonoDeflections :
       /\ a <= b
       /\ hist = [ track |-> "mono",
                   frames0 |-> drv.notif_count,
                   dir |-> dir, a |-> a, b |-> b,
                   drv_b |-> drv,
                   last_a |-> 0, last_b |-> 0,    \* written by the last frame
                   sum_a |-> 0, sum_b |-> 0 ]     \* written by all frames

\* both drivers handle the frame of their deflection at the same instant
NotifyMono ==
  /\ drv.notif_count < hist.frames0 + MaxMonoFrames
  /\ LET wa == handle_notification(StickAt(2048 + hist.dir * hist.a), now, World)
         wb == handle_notification(StickAt(2048 + hist.dir * hist.b), now,
                                   [World EXCEPT !.drv = hist.drv_b])
     IN  /\ drv' = wa.drv
         /\ ui_mouse' = wa.m
         /\ ui_pad' = wa.p
         /\ hist' = [hist EXCEPT !.drv_b = wb.drv,
                                 !.last_a = WheelWritten(wa.m),
                                 !.last_b = WheelWritten(wb.m),
                                 !.sum_a = @ + WheelWritten(wa.m),
                                 !.sum_b = @ + WheelWritten(wb.m)]
  /\ UNCHANGED << now, pump, sup >>

NextMono ==
  \/ NotifyMono
  \/ AdvanceTime(ScrollGrid)

SpecMono == InitMono /\ [][NextMono]_vars

\* C25: in mouse mode with a constant deflection beyond the deadzone no
\* frame writes wheel units against the direction of the deflection (the
\* signed sum is monotone in the duration), and after the same frames the
\* driver held at the larger deflection has written at least as much.
C25_ScrollMonotone ==
  /\ hist.dir * hist.last_a >= 0
  /\ hist.dir * hist.last_b >= 0
  /\ hist.dir * hist.sum_b >= hist.dir * hist.sum_a

\* downward deflections: both have scrolled, the larger one further
C25_Witness ==
  /\ hist.dir = -1
  /\ hist.sum_a < 0
  /\ hist.sum_b < hist.sum_a
  /\ drv.notif_count = hist.frames0 + MaxMonoFrames

\* the calls of the last bring-up, the confirmations left out
BringupCalls == SelectSeq(hist.bu_ops, LAMBDA o : o.op # "notif")

\* the attempt that the i-th entry of the bring-up's record belongs to
AttemptOf(i) == Cardinality({j \in 1..i : hist.bu_ops[j].op = "start"})

\* C26: a bring-up follows the schedule (0.10 s, no cycle), (0.20 s, cycle),
\* (0.35 s, cycle), (0.50 s, cycle): at most 4 attempts, no stop-notify in
\* the first, stop-notify before start-notify in the later ones, in every
\* attempt the write of 0c 91 01 02 and then of 0c 91 01 04 after the
\* attempt's start-notify and its delay; it stops at the first attempt after
\* whose writes a notification arrives within 1 s, whatever the optical
\* bytes, and makes no attempt after that.
C26_AttemptSchedule ==
  LET ops == hist.bu_ops
      n == Len(ops)
      calls == BringupCalls
      schedule == << "start", "w02", "w04",
                     "stop", "start", "w02", "w04",
                     "stop", "start", "w02", "w04",
                     "stop", "start", "w02", "w04" >>
      delays == << 360, 720, 1260, 1800 >>
  IN  /\ Len(calls) <= Len(schedule)
      /\ \A i \in 1..Len(calls) : calls[i].op = schedule[i]
      /\ \A i \in 1..n :
           /\ ops[i].op = "w02" =>
                /\ ops[i - 1].op = "start"
                /\ ops[i].t - ops[i - 1].t >= delays[AttemptOf(i)]
           /\ ops[i].op = "notif" =>
                /\ i = n
                /\ ops[i - 1].op = "w04"
                /\ ops[i].t - ops[i - 1].t < 3600
      /\ hist.bu_ended = "return" => ops[n].op = "notif"
      /\ hist.bu_ended = "exhausted" => Len(calls) = Len(schedule) /\ calls = ops

\* a bring-up returned in its second attempt on a notification whose
\* optical bytes are all zero
C26_Witness ==
  /\ hist.bu_ended = "return"
  /\ Len(hist.bu_ops) = 8
  /\ hist.bu_ops[8].op = "notif"
  /\ ~optical_active(drv.last_opt)

(***************************************************************************)
(* The optical-idle watchdog and the frames the driver has seen            *)
(***************************************************************************)
MaxWatchFrames == 3

\* whether a frame carries an optical slice with one of its bytes 1..4 set
FrameOpticalActive(data) ==
  /\ Len(data) >= OPT_OFFSET + OPT_LEN
  /\ optical_active(Slice(data, OPT_OFFSET, OPT_OFFSET + OPT_LEN))

InitWatch ==
  /\ now = T0
  /\ drv = WarmDrv
  /\ hist = InitHist("right", drv, "none") @@ [act_ts |-> None]
  /\ ui_mouse = InitMouse
  /\ ui_pad = InitPad
  /\ pump = [started |-> FALSE, wake |-> 0]
  /\ sup = [pc |-> "starting", wake |-> 0, last_restart |-> 0]

\* the notification callback; hist.act_ts is the arrival of the last frame
\* with an active optical slice, in whatever mode it was handled
NotifyWatch(data) ==
  /\ drv.notif_count < hist.frames0 + MaxWatchFrames
  /\ LET wb == NotifBegin(data, now, World)
         wt == ModeToggle(data, now, wb)
         w1 == handle_notification(data, now, World)
     IN  /\ drv' = w1.drv
         /\ ui_mouse' = w1.m
         /\ ui_pad' = w1.p
         /\ hist' = [FrameHist(data, now, World, wb, wt, w1) EXCEPT
                       !.act_ts = IF FrameOpticalActive(data) THEN now ELSE @]
  /\ UNCHANGED << now, pump, sup >>

NextWatch ==
  \/ \E data \in RunFrames : NotifyWatch(data)
  \/ StartTasks
  \/ PumpTick
  \/ SupervisorTick
  \/ BringupReturn
  \/ AdvanceTime(RunGrid)

SpecWatch == InitWatch /\ [][NextWatch]_vars

\* C27: the optical-idle watchdog invokes the bring-up only at a supervisor
\* check where a notification arrived within the last 0.5 s and no frame
\* with one of the optical slice bytes 1..4 non-zero was seen in the last
\* 2 s; with the notifications stopped or optical activity seen within 2 s
\* the check does not invoke it.
C27_WatchdogFiresOnlyIdle ==
  [][(SupervisorChecks /\ sup'.pc = "bringup")
       => /\ drv.last_notif_ts # 0
          /\ now - drv.last_notif_ts < SupNotifAge
          /\ hist.act_ts = None \/ now - hist.act_ts >= SupOptIdle]_vars

(***************************************************************************)
(* The pump on a large backlog                                             *)
(***************************************************************************)
\* the pump finds a backlog left by frames whose deltas were limited to
\* MAX_STEP, the last motion just now; or a small one or none, the last
\* motion long ago
InitPump ==
  /\ now = T0
  /\ \E ax \in {-MAX_STEP, 0, 3, MAX_STEP + 50},
        ay \in {-(MAX_STEP - 50), 0, MAX_STEP - 50},
        lm \in {0, T0} :
       /\ lm = 0 => Abs(ax) + Abs(ay) <= 3
       /\ drv = [WarmDrv EXCEPT !.dx_accum = RInt(ax),
                                !.dy_accum = RInt(ay),
                                !.last_motion_ts = lm]
  /\ hist = InitHist("right", drv, "motion")
  /\ ui_mouse = InitMouse
  /\ ui_pad = InitPad
  /\ pump = [started |-> TRUE, wake |-> T0 + PumpPeriod]
  /\ sup = [pc |-> "sleep", wake |-> T0 + SupPeriod, last_restart |-> 0]

NextPump ==
  \/ PumpTick
  \/ AdvancePumpPeriod

SpecPump == InitPump /\ [][NextPump]_vars

\* the pump takes a step: one iteration of _pump() after its sleep
PumpTicks ==
  pump.started /\ now >= pump.wake /\ pump' # pump

\* C28: a pump tick that emits writes REL_X = ix and REL_Y = iy with
\* |ix| <= 60 and |iy| <= 60 and subtracts exactly (ix, iy) from the
\* accumulators (as the idle brake left them, when it applied); a tick that
\* emits nothing and applies no idle brake leaves both accumulators as they
\* were; a tick that finds both accumulators below 0.1 emits nothing.
C28_PumpTick ==
  [][PumpTicks =>
       LET ix == ui_mouse'.rel_x
           iy == ui_mouse'.rel_y
           emits == ui_mouse'.n_rel > 0
           small == RAbsLt(drv.dx_accum, 1, 10) /\ RAbsLt(drv.dy_accum, 1, 10)
           brakes == ~small /\ (now - drv.last_motion_ts) > MOTION_IDLE_CUTOFF_S
           bx == IF brakes THEN PumpBrake(drv.dx_accum) ELSE drv.dx_accum
           by == IF brakes THEN PumpBrake(drv.dy_accum) ELSE drv.dy_accum
       IN  /\ emits => /\ Abs(ix) <= 60
                       /\ Abs(iy) <= 60
                       /\ ix # 0 \/ iy # 0
                       /\ drv'.dx_accum = RAddInt(bx, -ix)
                       /\ drv'.dy_accum = RAddInt(by, -iy)
           /\ (~emits /\ ~brakes) => /\ drv'.dx_accum = drv.dx_accum
                                     /\ drv'.dy_accum = drv.dy_accum
           /\ small => ~emits]_vars

\* a tick has written the largest step along x and left the rest of the
\* backlog
C28_Witness ==
  /\ ui_mouse.n_rel > 0
  /\ ui_mouse.rel_x = 60
  /\ ui_mouse.rel_y = 0
  /\ drv.dx_accum = RInt(MAX_STEP + 50 - 60)

(***************************************************************************)
(* The optical extraction frame by frame                                   *)
(***************************************************************************)
\* counters that wrap, that move by less than the deadzone and by more than
\* MAX_STEP; a frame one byte short of the optical slice; and a frame with C
OpticalFrames ==
  { OptFrame(65520, 32), OptFrame(16, 32), OptFrame(17, 33), OptFrame(1000, 65000),
    Frame(OPT_OFFSET + OPT_LEN - 1, (OPT_OFFSET + X_LO_IDX :> 99)),
    RightFull(BTN_C, StickRest(STICK_BASE_RIGHT), 64) }

InitOptical ==
  /\ now = T0
  /\ drv = InitDrv("right", TRUE)
  /\ hist = InitHist("right", drv, "none")
  /\ ui_mouse = InitMouse
  /\ ui_pad = InitPad
  /\ pump = [started |-> FALSE, wake |-> 0]
  /\ sup = [pc |-> "starting", wake |-> 0, last_restart |-> 0]

NextOptical ==
  \/ \E data \in OpticalFrames : Notify(data, MaxOptFrames)
  \/ AdvanceTime({T0 + PumpPeriod})

SpecOptical == InitOptical /\ [][NextOptical]_vars

\* the step is the handling of a frame
FrameHandled == drv'.notif_count = drv.notif_count + 1

\* C29: optical extraction in mouse mode: the first frame with a valid slice
\* records the counters and adds nothing; every later one sets prev to its
\* counters and adds to each axis of the backlog the wrap-aware delta, 0
\* when its magnitude is <= 2 and limited to +-200; last_motion_ts is set
\* only when a component is not 0; a frame shorter than 20 bytes leaves
\* prev, the backlog and last_motion_ts as they were.  (The backlog a frame
\* finds is empty when the frame has switched the mode.)
C29_OpticalExtraction ==
  [][(FrameHandled /\ drv'.mode = "mouse") =>
       LET data == hist'.data
           bx == IF hist'.toggled THEN RZero ELSE drv.dx_accum
           by == IF hist'.toggled THEN RZero ELSE drv.dy_accum
       IN  IF Len(data) < 20
           THEN /\ drv'.prev_x16 = drv.prev_x16
                /\ drv'.prev_y16 = drv.prev_y16
                /\ drv'.dx_accum = bx
                /\ drv'.dy_accum = by
                /\ drv'.last_motion_ts = drv.last_motion_ts
           ELSE LET x == data[17] + 256 * data[18]
                    y == data[19] + 256 * data[20]
                    dx == IF drv.prev_x16 = None THEN 0
                          ELSE CounterDelta(x, drv.prev_x16)
                    dy == IF drv.prev_y16 = None THEN 0
                          ELSE CounterDelta(y, drv.prev_y16)
                IN  /\ drv'.prev_x16 = x
                    /\ drv'.prev_y16 = y
                    /\ drv'.dx_accum = RAddInt(bx, dx)
                    /\ drv'.dy_accum = RAddInt(by, dy)
                    /\ drv'.last_motion_ts =
                         IF dx # 0 \/ dy # 0 THEN now ELSE drv.last_motion_ts]_vars

\* after the first frame a counter wrapped (0xFFF0 -> 0x0010) and a move
\* beyond MAX_STEP came, the second later than the first
C29_Witness ==
  /\ drv.mode = "mouse"
  /\ hist.data = OptFrame(1000, 65000)
  /\ drv.prev_x16 = 1000
  /\ drv.dx_accum = RInt(32 + MAX_STEP)
  /\ drv.dy_accum = RInt(-MAX_STEP)
  /\ drv.last_motion_ts = T0 + PumpPeriod

(***************************************************************************)
(* Stick calibration                                                       *)
(***************************************************************************)
MaxCalFrames == 4

\* the stick at rest, pushed or at full travel, with and without C; and a
\* frame too short to carry the stick
CalFrames ==
  { RightFull(b5, st, 0) : b5 \in {0, BTN_C},
                           st \in { StickRest(STICK_BASE_RIGHT),
                                    StickPushed(STICK_BASE_RIGHT),
                                    StickFull(STICK_BASE_RIGHT) } }
    \cup { Frame(STICK_BASE_RIGHT + 2, << >>) }

\* a driver in mouse mode that has collected some samples at rest, from one
\* to one short of STICK_CAL_SAMPLES
InitCal ==
  /\ now = T0
  /\ \E k \in {1, STICK_CAL_SAMPLES_PAD - 2, STICK_CAL_SAMPLES_PAD,
               2 * STICK_CAL_SAMPLES_PAD, STICK_CAL_SAMPLES - 2,
               STICK_CAL_SAMPLES - 1} :
       drv = Feed([drv |-> InitDrv("right", TRUE), m |-> InitMouse, p |-> InitPad],
                  RightFull(0, StickRest(STICK_BASE_RIGHT), 0), T0, k).drv
  /\ hist = InitHist("right", drv, "none")
  /\ ui_mouse = InitMouse
  /\ ui_pad = InitPad
  /\ pump = [started |-> FALSE, wake |-> 0]
  /\ sup = [pc |-> "starting", wake |-> 0, last_restart |-> 0]

NextCal ==
  \/ \E data \in CalFrames : Notify(data, MaxCalFrames)
  \/ AdvanceTime({T0 + 60})

SpecCal == InitCal /\ [][NextCal]_vars

\* m is int(median) of the samples s: of the middle one, or of the mean of
\* the two middle ones
IsMedianOf(s, m) ==
  LET n == Len(s)
      Below(v) == Cardinality({i \in 1..n : s[i] < v})
      UpTo(v) == Cardinality({i \in 1..n : s[i] <= v})
      IsKth(v, k) == Below(v) < k /\ UpTo(v) >= k
      vals == {s[i] : i \in 1..n}
  IN  IF n % 2 = 1
      THEN m \in vals /\ IsKth(m, (n + 1) \div 2)
      ELSE \E a \in vals, b \in vals :
             /\ IsKth(a, n \div 2)
             /\ IsKth(b, n \div 2 + 1)
             /\ m = (a + b) \div 2

\* C30: calibration completes on the first stick-carrying frame at which
\* the samples collected reach the threshold of the mode the frame is
\* handled in (5 in gamepad mode, 25 in mouse mode), with the per-axis
\* median of all samples collected; never with fewer than 5, with fewer
\* than 25 only in gamepad mode; until then no frame writes a wheel event or
\* an axis off the centre; and a calibrated driver stays calibrated.
C30_Calibration ==
  [][FrameHandled =>
       LET carried == Len(hist'.data) > drv'.stick_base_idx + 2
           n == Len(drv'.stick_cal_x)
           need == IF drv'.mode = "gamepad" THEN 5 ELSE 25
           done == drv'.stick_center_x12 # None /\ drv'.stick_center_y12 # None
       IN  IF drv.stick_center_x12 # None /\ drv.stick_center_y12 # None
           THEN done
           ELSE /\ n = Len(drv.stick_cal_x) + (IF carried THEN 1 ELSE 0)
                /\ Len(drv'.stick_cal_y) = n
                /\ done <=> (carried /\ n >= need)
                /\ done => /\ n >= 5
                           /\ n < 25 => drv'.mode = "gamepad"
                           /\ IsMedianOf(drv'.stick_cal_x, drv'.stick_center_x12)
                           /\ IsMedianOf(drv'.stick_cal_y, drv'.stick_center_y12)
                /\ ~done => /\ ui_mouse'.wheel = 0
                            /\ ui_mouse'.wheel_hi = 0
                            /\ ui_pad'.abs_x = 32768
                            /\ ui_pad'.abs_y = 32768]_vars

\* calibrated in gamepad mode on five samples, four of them pushed: the
\* centre is the pushed position
C30_Witness ==
  /\ drv.mode = "gamepad"
  /\ Len(drv.stick_cal_y) = STICK_CAL_SAMPLES_PAD
  /\ drv.stick_center_x12 = 2048
  /\ drv.stick_center_y12 = 2048 + 16 * 30

(***************************************************************************)
(* The centre of a calibrated stick                                        *)
(***************************************************************************)
MaxRecenterFrames == 3

\* a frame of the right device with the stick at (x12, y12)
StickAtXY(x12, y12) ==
  LET b == StickPack(x12, y12)
  IN  RightFull(0, (STICK_BASE_RIGHT :> b[1]) @@ (STICK_BASE_RIGHT + 1 :> b[2])
                     @@ (STICK_BASE_RIGHT + 2 :> b[3]), 0)

\* the sample of a frame of the right device
SampleOf(data) ==
  decode_stick_12(data[STICK_BASE_RIGHT + 1], data[STICK_BASE_RIGHT + 2],
                  data[STICK_BASE_RIGHT + 3])

\* centres that calibration on a steady stick leaves: the middle, the ends
\* of the range, and positions off the middle
RecenterCentres == { << 2048, 2048 >>, << 7, 2112 >>, << 0, 4095 >>, << 2060, 2040 >> }

\* a driver calibrated in mouse mode on STICK_CAL_SAMPLES frames of a
\* steady stick
InitRecenter ==
  /\ now = T0
  /\ \E c \in RecenterCentres :
       drv = Feed([drv |-> InitDrv("right", TRUE), m |-> InitMouse, p |-> InitPad],
                  StickAtXY(c[1], c[2]), T0, STICK_CAL_SAMPLES).drv
  /\ hist = InitHist("right", drv, "none")
  /\ ui_mouse = InitMouse
  /\ ui_pad = InitPad
  /\ pump = [started |-> FALSE, wake |-> 0]
  /\ sup = [pc |-> "starting", wake |-> 0, last_restart |-> 0]

\* a frame with the stick near the centre, on it, at the rim of the
\* recenter radius or just beyond it
NotifyRecenter ==
  \E ox \in {-(STICK_RECENTER_RADIUS + 1), -STICK_RECENTER_RADIUS, 0, STICK_RECENTER_RADIUS},
     oy \in {-1, 0, STICK_RECENTER_RADIUS + 5} :
    /\ drv.stick_center_x12 + ox \in 0..4095
    /\ drv.stick_center_y12 + oy \in 0..4095
    /\ Notify(StickAtXY(drv.stick_center_x12 + ox, drv.stick_center_y12 + oy),
              MaxRecenterFrames)

NextRecenter ==
  \/ NotifyRecenter
  \/ AdvanceTime({T0 + 60})

SpecRecenter == InitRecenter /\ [][NextRecenter]_vars

Between(v, a, b) == Min(a, b) <= v /\ v <= Max(a, b)

\* C31: after calibration the centre stays within [0, 4095] on both axes; a
\* frame whose sample lies within +-25 of the centre on both axes moves each
\* axis to old * (1 - 0.02) + current * 0.02 truncated to an integer, a
\* value between the old centre and the sample; a frame with either axis
\* outside the radius leaves the centre as it was.
C31_CentreBounded ==
  [][(FrameHandled /\ drv.stick_center_x12 # None /\ drv.stick_center_y12 # None) =>
       LET s == SampleOf(hist'.data)
           cx == drv.stick_center_x12
           cy == drv.stick_center_y12
           near == Abs(s[1] - cx) <= 25 /\ Abs(s[2] - cy) <= 25
       IN  /\ drv'.stick_center_x12 \in 0..4095
           /\ drv'.stick_center_y12 \in 0..4095
           /\ IF near
              THEN /\ drv'.stick_center_x12 = recenter(cx, s[1])
                   /\ drv'.stick_center_y12 = recenter(cy, s[2])
                   /\ Between(drv'.stick_center_x12, cx, s[1])
                   /\ Between(drv'.stick_center_y12, cy, s[2])
              ELSE /\ drv'.stick_center_x12 = cx
                   /\ drv'.stick_center_y12 = cy]_vars

(***************************************************************************)
(* Fallback side inference and the dispatch of frames while side is        *)
(* unknown                                                                 *)
(***************************************************************************)
MaxInferFrames == 3

\* full frames with the right face byte (4), the misc byte (5) and the left
\* face byte (6) as given, a frame too short for any button byte and a
\* 6-byte frame that carries bytes 4 and 5 only
InferFrames ==
  {Frame(20, (4 :> b4) @@ (5 :> b5) @@ (6 :> b6)) :
     b4 \in {0, BTN_A}, b5 \in {0, BTN_C}, b6 \in {0, LBTN_L}}
  \cup {ShortFrame, Frame(6, (4 :> BTN_A) @@ (5 :> BTN_C))}

InitInfer == InitSide

NextInfer ==
  \/ \E data \in InferFrames : Notify(data, MaxInferFrames)
  \/ AdvanceTime({T0 + 60})

SpecInfer == InitInfer /\ [][NextInfer]_vars

\* the world with the driver's side taken as known to be right
AsRight(w) == [w EXCEPT !.drv.side = "right"]

\* C32: fallback side inference runs only while side is unknown and only on
\* frames of at least 7 bytes: bits at offset 6 and none at offset 4 set
\* side to left with the left offsets, bits at offset 4 and none at offset 6
\* set side to right; bits at both offsets or at neither leave side unknown,
\* and a frame handled while side stays unknown is handled exactly as a
\* right device handles it (right offsets, C-button toggle).
C32_FallbackInference ==
  [][FrameHandled =>
       LET data == hist'.data
           long == Len(data) >= 7
           b4 == IF long THEN data[5] ELSE 0
           b6 == IF long THEN data[7] ELSE 0
       IN  IF drv.side # "unknown" THEN drv'.side = drv.side
           ELSE IF long /\ b6 # 0 /\ b4 = 0
           THEN OffsetSet(drv') =
                  << "left", LEFT_BTN_FACE_IDX, LEFT_BTN_MISC_IDX, STICK_BASE_LEFT >>
           ELSE IF long /\ b4 # 0 /\ b6 = 0
           THEN OffsetSet(drv') =
                  << "right", RIGHT_BTN_FACE_IDX, RIGHT_BTN_MISC_IDX, STICK_BASE_RIGHT >>
           ELSE /\ OffsetSet(drv') =
                     << "unknown", RIGHT_BTN_FACE_IDX, RIGHT_BTN_MISC_IDX, STICK_BASE_RIGHT >>
                /\ AsRight([drv |-> drv', m |-> ui_mouse', p |-> ui_pad'])
                     = handle_notification(data, now, AsRight(World))
                /\ drv'.prev_mode_btn = (Len(data) > 5 /\ BitAnd(data[6], BTN_C) # 0)
                /\ (drv'.mode # drv.mode) = (drv'.prev_mode_btn /\ ~drv.prev_mode_btn)]_vars

\* a driver of unknown side has switched to gamepad mode on a C press in a
\* frame with bits at both offsets, and is still of unknown side
C32_Witness ==
  /\ drv.side = "unknown"
  /\ drv.mode = "gamepad"
  /\ drv.notif_count >= 2
  /\ hist.data = Frame(20, (4 :> BTN_A) @@ (5 :> BTN_C) @@ (6 :> LBTN_L))
  /\ hist.toggled

(***************************************************************************)
(* The gamepad stick as a function of the sample and the centre            *)
(***************************************************************************)
\* centres and the offsets of the samples from them: on the centre, at the
\* rim of the deadzone and just beyond it, half way, and at the ends of the
\* 12-bit range
PadCentres == { << 2048, 2048 >>, << 0, 4095 >>, << 4095, 0 >>, << 2000, 2100 >> }

PadSamples(c) ==
  {0, 4095} \cup
  ({c - (STICK_DEADZONE_12 + 1), c - STICK_DEADZONE_12, c, c + STICK_DEADZONE_12,
    c + STICK_DEADZONE_12 + 1, c + 1000, c - 1000} \cap 0..4095)

\* a calibrated driver in gamepad mode, of either side or of unknown side
InitPadStick ==
  /\ now = T0
  /\ \E side \in {"unknown", "left", "right"}, c \in PadCentres :
       drv = [InitDrv(side, TRUE) EXCEPT !.mode = "gamepad",
                                         !.stick_center_x12 = c[1],
                                         !.stick_center_y12 = c[2]]
  /\ hist = InitHist("right", drv, "none") @@ [emitted |-> FALSE, x12 |-> 0, y12 |-> 0]
  /\ ui_mouse = InitMouse
  /\ ui_pad = InitPad
  /\ pump = [started |-> FALSE, wake |-> 0]
  /\ sup = [pc |-> "starting", wake |-> 0, last_restart |-> 0]

\* _emit_gamepad_stick(x12, y12, cx, cy) on a sample
EmitPadStick ==
  \E x12 \in PadSamples(drv.stick_center_x12), y12 \in PadSamples(drv.stick_center_y12) :
    /\ ui_pad' = emit_gamepad_stick(World, x12, y12, drv.stick_center_x12,
                                    drv.stick_center_y12).p
    /\ hist' = [hist EXCEPT !.emitted = TRUE, !.x12 = x12, !.y12 = y12]
    /\ UNCHANGED << now, drv, ui_mouse, pump, sup >>

NextPadStick == EmitPadStick

SpecPadStick == InitPadStick /\ [][NextPadStick]_vars

\* v outside the deadzone, else 0
Deadzoned(v) == IF -STICK_DEADZONE_12 <= v /\ v <= STICK_DEADZONE_12 THEN 0 ELSE v

\* a component clamped to [-2048, 2048] and mapped linearly around 32768,
\* kept within the axis range
AxisOf(v) == Max(0, Min(65535, 32768 + (Max(-2048, Min(2048, v)) * 32768) \div 2048))

\* C33: in gamepad mode, for every sample and centre in [0, 4095], ABS_X and
\* ABS_Y lie in [0, 65535]; with (dx, dy) = (x - cx, cy - y) deadzoned at 70
\* per axis the rotated vector is (-dy, dx) on a left device and (dy, -dx)
\* otherwise, each component clamped to [-2048, 2048] and mapped linearly
\* around 32768 (ABS_Y with the sign turned), and ABS_X is 65535 minus the
\* mapped value.
C33_GamepadAxes ==
  hist.emitted =>
    LET dx == Deadzoned(hist.x12 - drv.stick_center_x12)
        dy == Deadzoned(drv.stick_center_y12 - hist.y12)
        r == IF drv.side = "left" THEN << -dy, dx >> ELSE << dy, -dx >>
    IN  /\ ui_pad.abs_x \in 0..65535
        /\ ui_pad.abs_y \in 0..65535
        /\ ui_pad.abs_x = 65535 - AxisOf(r[1])
        /\ ui_pad.abs_y = AxisOf(-r[2])

\* a left device with the stick pushed fully up and half way right of the
\* centre (2000, 2100): the rotated vector is (-2100, 1000)
C33_Witness ==
  /\ hist.emitted
  /\ drv.side = "left"
  /\ drv.stick_center_x12 = 2000 /\ drv.stick_center_y12 = 2100
  /\ hist.x12 = 3000 /\ hist.y12 = 0
  /\ ui_pad.abs_x = 65535
  /\ ui_pad.abs_y = 32768 - 16000

\* the sign of a backlog
RSign(q) == Sign(q.n)

\* |i| is at most the magnitude of the backlog q rounded up
WithinRoundedUp(i, q) == i = 0 \/ (Abs(i) - 1) * Pow20(q.e) < Abs(q.n)

\* C34: the pump never overshoots the backlog: on every tick that emits,
\* each emitted component is 0 or has the sign of its accumulator at
\* emission time and a magnitude not larger than the accumulator's magnitude
\* rounded up, and after the subtraction no accumulator has changed sign (so
\* that no movement is followed by the opposite movement without a new
\* contribution in between).
C34_NoOvershoot ==
  [][(PumpTicks /\ ui_mouse'.n_rel > 0) =>
       LET ix == ui_mouse'.rel_x
           iy == ui_mouse'.rel_y
           brakes == (now - drv.last_motion_ts) > MOTION_IDLE_CUTOFF_S
           bx == IF brakes THEN PumpBrake(drv.dx_accum) ELSE drv.dx_accum
           by == IF brakes THEN PumpBrake(drv.dy_accum) ELSE drv.dy_accum
       IN  /\ ix # 0 => Sign(ix) = RSign(bx)
           /\ iy # 0 => Sign(iy) = RSign(by)
           /\ WithinRoundedUp(ix, bx)
           /\ WithinRoundedUp(iy, by)
           /\ RSign(drv'.dx_accum) \in {0, RSign(bx)}
           /\ RSign(drv'.dy_accum) \in {0, RSign(by)}]_vars

\* C35: motion that happened while in gamepad mode is never emitted as
\* pointer movement: after the frame that switches from gamepad back to
\* mouse mode has been processed both accumulators are zero (the first
\* optical frame handled after the return contributes nothing).
C35_NoMotionFromGamepad ==
  [][(FrameHandled /\ drv.mode = "gamepad" /\ drv'.mode = "mouse") =>
       /\ drv'.dx_accum = RZero
       /\ drv'.dy_accum = RZero]_vars

(***************************************************************************)
(* The optical-idle watchdog and the time spent in mouse mode              *)
(***************************************************************************)
MaxIdleFrames == 3

\* start() has returned at T0 with the driver in mouse mode;
\* hist.mouse_since is the instant the present stay in mouse mode began
InitIdle ==
  /\ now = T0
  /\ drv = WarmDrv
  /\ hist = InitHist("right", drv, "none") @@ [mouse_since |-> T0]
  /\ ui_mouse = InitMouse
  /\ ui_pad = InitPad
  /\ pump = [started |-> FALSE, wake |-> 0]
  /\ sup = [pc |-> "starting", wake |-> 0, last_restart |-> 0]

NotifyIdle(data) ==
  /\ drv.notif_count < hist.frames0 + MaxIdleFrames
  /\ LET wb == NotifBegin(data, now, World)
         wt == ModeToggle(data, now, wb)
         w1 == handle_notification(data, now, World)
     IN  /\ drv' = w1.drv
         /\ ui_mouse' = w1.m
         /\ ui_pad' = w1.p
         /\ hist' = [FrameHist(data, now, World, wb, wt, w1) EXCEPT
                       !.mouse_since = IF drv.mode = "gamepad" /\ w1.drv.mode = "mouse"
                                       THEN now ELSE @]
  /\ UNCHANGED << now, pump, sup >>

NextIdle ==
  \/ \E data \in RunFrames : NotifyIdle(data)
  \/ StartTasks
  \/ PumpTick
  \/ SupervisorTick
  \/ BringupReturn
  \/ AdvanceTime(RunGrid)

SpecIdle == InitIdle /\ [][NextIdle]_vars

\* C36: the optical-idle watchdog invokes the bring-up only after at least
\* 2 continuous seconds in mouse mode since start-up finished: time in
\* gamepad mode and time before start-up completes do not count, so neither
\* the first supervisor check after start-up nor the first check after the
\* return from gamepad to mouse mode invokes it.
C36_WatchdogNeedsTwoSeconds ==
  [][(SupervisorChecks /\ sup'.pc = "bringup")
       => /\ drv.mode = "mouse"
          /\ now - hist.mouse_since >= SupOptIdle]_vars

\* the button bytes of the layout a frame was handled with
LayoutBytes(side) ==
  IF side = "left" THEN {LEFT_BTN_FACE_IDX, LEFT_BTN_MISC_IDX} ELSE {BTN4, BTN5}

\* every button byte of the layout is zero in the frame, or beyond its end
AllClear(data, side) ==
  \A idx \in LayoutBytes(side) : Len(data) <= idx \/ data[idx + 1] = 0

\* C37: no stuck press without a mode switch: for any frame sequence and
\* either side, after a frame in which every button bit of the active layout
\* is clear (or which is too short to carry the button bytes), every button
\* of both sinks is released.
C37_AllClearReleases ==
  (FrameSeen /\ AllClear(hist.data, hist.side)) => Pressed(World) = {}

\* a full frame without a button arrived in gamepad mode and found a gamepad
\* key pressed, which it released
C37_Witness ==
  /\ FrameSeen
  /\ AllClear(hist.data, hist.side)
  /\ Len(hist.data) = 20
  /\ hist.mode0 = "gamepad"
  /\ \E k \in PadKeys : k \in hist.pre /\ ui_pad.release[k] = 1

(***************************************************************************)
(* A steady stick off the calibrated centre                                *)
(***************************************************************************)
\* more frames than the recenter radius has units: a centre that comes
\* closer to the sample by a unit or more per frame has reached it
MaxDriftFrames == 30

DriftOffsets == {-STICK_RECENTER_RADIUS, -3, 0, 3, STICK_RECENTER_RADIUS}

\* a driver calibrated at (2048, 2048); from now on the stick stays at
\* (hist.sx, hist.sy), within the recenter radius on both axes
InitDrift ==
  /\ now = T0
  /\ drv = WarmDrv
  /\ \E ox \in DriftOffsets, oy \in DriftOffsets :
       hist = InitHist("right", drv, "none")
                @@ [sx |-> WarmDrv.stick_center_x12 + ox,
                    sy |-> WarmDrv.stick_center_y12 + oy]
  /\ ui_mouse = InitMouse
  /\ ui_pad = InitPad
  /\ pump = [started |-> FALSE, wake |-> 0]
  /\ sup = [pc |-> "starting", wake |-> 0, last_restart |-> 0]

NextDrift ==
  \/ Notify(StickAtXY(hist.sx, hist.sy), MaxDriftFrames)
  \/ AdvanceTime({T0 + 60})

SpecDrift == InitDrift /\ [][NextDrift]_vars

\* C38: recenter tracks drift in both directions: with the stick constant at
\* a sample within +-25 of the centre on both axes, after finitely many
\* frames (here MaxDriftFrames, more than the radius) the centre equals the
\* sample on each axis, whether the sample is above or below the centre.
C38_RecenterConverges ==
  drv.notif_count = hist.frames0 + MaxDriftFrames
    => /\ drv.stick_center_x12 = hist.sx
       /\ drv.stick_center_y12 = hist.sy

\* C39: a stick at rest reports the declared midpoint on both axes: in
\* gamepad mode, on either side, a sample within the 70-unit deadzone of the
\* centre on both axes emits ABS_X = 32768 and ABS_Y = 32768, the values
\* the mode-switch release routine writes to centre the stick.
C39_RestIsMidpoint ==
  (/\ hist.emitted
   /\ Abs(hist.x12 - drv.stick_center_x12) <= STICK_DEADZONE_12
   /\ Abs(hist.y12 - drv.stick_center_y12) <= STICK_DEADZONE_12)
    => /\ ui_pad.abs_x = 32768
       /\ ui_pad.abs_y = 32768
       /\ ui_pad.abs_x = release_gamepad_buttons(World).p.abs_x
       /\ ui_pad.abs_y = release_gamepad_buttons(World).p.abs_y

(***************************************************************************)
(* Termination of the bring-up                                             *)
(***************************************************************************)
\* a step of ensure_notify_and_init: a transport call returns or raises, or
\* a wait is over
BringupStep ==
  \/ BuAcquire
  \/ BuStopNotify
  \/ BuStartNotify
  \/ BuInit
  \/ BuWait
  \/ BuOptWait

\* run() with every transport call returning or raising and every sleep and
\* timeout of the event loop expiring
FairBoot ==
  InitBoot /\ [][NextBoot]_vars /\ WF_vars(BringupStep) /\ WF_vars(AdvanceBoot)

\* how often the last invocation of ensure_notify_and_init has done one of ops
DoneOps(ops) ==
  Cardinality({i \in 1..Len(hist.bu_ops) : hist.bu_ops[i].op \in ops})

\* C40: bring-up always terminates: every invocation of
\* ensure_notify_and_init ends, after at most 4 attempts (at most 4
\* start-notify calls, 3 stop-notify calls and 8 init writes), whether or
\* not notifications ever arrive, and when it has ended the bring-up lock is
\* free.
C40_BringupTerminates ==
  /\ [](/\ sup.attempt <= 4
        /\ DoneOps({"start"}) <= 4
        /\ DoneOps({"stop"}) <= 3
        /\ DoneOps({"w02", "w04"}) <= 8
        /\ hist.bu_ended # "none" => ~drv.bringup_lock)
  /\ (sup.pc = "bringup") ~> (sup.pc # "bringup" /\ hist.bu_ended # "none")

\* a bring-up invoked by the supervisor has ended after four attempts
\* without a notification, with all the calls made and the lock free
C40_Witness ==
  /\ hist.bu_calls = 2
  /\ hist.bu_ended = "exhausted"
  /\ sup.pc # "bringup"
  /\ DoneOps({"start"}) = 4
  /\ DoneOps({"stop"}) = 3
  /\ DoneOps({"w02", "w04"}) = 8
  /\ ~drv.bringup_lock

=============================================================================
